---- MODULE Spec2Model ----
(***************************************************************************)
(* Tokyo Record Club: the job orchestration of the serverless functions    *)
(* (build-world, generate-playlists, regenerate-one, world-status) over    *)
(* the shared key-value store, and the recommendation pipeline's pure      *)
(* steps (blocklist filter, intersection bucketing, diversity selection).  *)
(*                                                                         *)
(* Numbers: Date.now() is the integer variable now.  Audio features and    *)
(* score components are fixed-point integers in thousandths (0.15 is 150), *)
(* tempo is in tenths of a BPM, score and biasedScore in ten-thousandths.  *)
(***************************************************************************)
EXTENDS Integers, Sequences, FiniteSets, TLC

\* ------------------------------------------------------------------ bounds
MaxClock == 2
MaxRuns == 3

\* ---------------------------------------------------------- input domains
Users == {"u1"}
PlaylistNames == {"Night"}
SeedInputs == {<<>>, <<"s1">>}
ErrMsgs == {"Spotify API error: 502 Bad Gateway"}
ExtractedIntersections == {<<"Night", "Dawn">>}

\* JSON null / undefined, and an absent session
Null == [null |-> TRUE]

Sessions ==
  {Null} \cup
  {[spotifyId |-> u, accessToken |-> t] : u \in Users, t \in {"refresh-token", ""}}

VARIABLES
  now,      \* Date.now(), in milliseconds
  kv,       \* the 'tokyo-record-club' store: key string -> JSON value
  worlds,   \* the 'worlds' blob store: key string -> world document
  runs,     \* the handler invocations that created a job, in start order
  resp,     \* the last answer of the world-status or build-world endpoint
  pworld,   \* the world definition a generation pipeline works from
  calls,    \* the recommendation requests harvestCandidates has sent
  responses,\* response.tracks of each request (harvestCandidates' call1..call6)
  candidates,\* what harvestCandidates returned
  cands,    \* the pipeline's current candidate list
  playlists,\* the playlists bucketIntoIntersections returned
  pstage,   \* the pipeline's position
  worldDef, \* the extractor's answer a build run holds in step 8
  buildAvgFeatures,\* computeAverageFeatures(audioFeatures) of that build run
  worldIntersections, \* world.intersections as step 8 builds them, <<>> before
  rqPc,     \* where one spotifyRequest stands
  retries,  \* its local retries
  fetched,  \* the responses its fetch calls got, in order
  waited,   \* the milliseconds it has slept after 429 answers
  requestCount,\* the module's requestCount
  windowStart,\* the module's windowStart
  callerPc, \* per caller of enforceRateLimit: "ready" or "sleeping"
  wakeAt,   \* per sleeping caller: when its timer fires
  admitted, \* time -> how many calls of enforceRateLimit returned at it
  styleInput,\* the audio features inferStyle is called with
  styleTags,\* the styles array of the call
  styleText,\* the string the call returned
  page      \* the state of a mounted WorldPreview component

jobVars == <<now, kv, worlds, runs, resp>>

pipeVars ==
  <<pworld, calls, responses, candidates, cands, playlists, pstage>>

biasVars == <<worldDef, buildAvgFeatures, worldIntersections>>

requestVars == <<rqPc, retries, fetched, waited>>

limiterVars == <<requestCount, windowStart, callerPc, wakeAt, admitted>>

clientVars == <<requestVars, limiterVars>>

\* the request chains that run concurrently (Promise.all in fetch-seeds)
Callers == {"p1", "p2"}

styleVars == <<styleInput, styleTags, styleText>>

pageVars == <<page>>

\* no catalog request is under way
ClientIdle ==
  /\ rqPc = "idle"
  /\ retries = 0
  /\ fetched = <<>>
  /\ waited = 0
  /\ requestCount = 0
  /\ windowStart = 1
  /\ callerPc = [c \in Callers |-> "ready"]
  /\ wakeAt = [c \in Callers |-> 0]
  /\ admitted = <<>>

StyleIdle == styleInput = Null /\ styleTags = <<>> /\ styleText = ""

PageIdle == page = Null

vars ==
  <<now, kv, worlds, runs, resp,
    pworld, calls, responses, candidates, cands, playlists, pstage,
    worldDef, buildAvgFeatures, worldIntersections,
    clientVars, styleVars, pageVars>>

\* ------------------------------------------------------------- storage.ts
getUserKV(store, spotifyId) ==
  IF ("user:" \o spotifyId) \in DOMAIN store
    THEN store["user:" \o spotifyId]
    ELSE Null

setUserKV(store, key, data) == (key :> data) @@ store

WorldKey(userId) == "users/" \o userId \o "/world.json"

getWorldBlob(ws, userId) ==
  IF WorldKey(userId) \in DOMAIN ws THEN ws[WorldKey(userId)] ELSE Null

\* a store that patches the intersections into the document it already holds
patchWorldBlob(ws, userId, world) ==
  (WorldKey(userId) :>
     (IF WorldKey(userId) \in DOMAIN ws
        THEN [ws[WorldKey(userId)] EXCEPT !.intersections = world.intersections]
        ELSE world)) @@ ws

putWorldBlob(ws, userId, world) == (WorldKey(userId) :> world) @@ ws

\* ------------------------------------------------------------ job records
JobKey(jobId) == "job:" \o jobId

GenerateJobId(spotifyId, t) == "playlists-" \o spotifyId \o "-" \o ToString(t)

BuildJobId(spotifyId, t) == "world-" \o spotifyId \o "-" \o ToString(t)

RegenJobId(spotifyId, playlistName, t) ==
  "regen-" \o spotifyId \o "-" \o playlistName \o "-" \o ToString(t)

CooldownKey(spotifyId, playlistName) ==
  "cooldown:" \o spotifyId \o ":" \o playlistName

cooldownMs == 900000

\* progress checkpoints of generatePlaylistsAsync, in program order
GenProgress == <<10, 20, 30, 40, 50, 60, 70, 80, 90, 100>>

GenStepName(p) ==
  CASE p = 10 -> "Harvesting candidates..."
    [] p = 20 -> "Filtering blocklist..."
    [] p = 30 -> "Analyzing audio features..."
    [] p = 40 -> "Applying audio constraints..."
    [] p = 50 -> "Fetching artist genres..."
    [] p = 60 -> "Computing semantic scores..."
    [] p = 70 -> "Applying bonuses..."
    [] p = 80 -> "Creating intersection playlists..."
    [] p = 90 -> "Creating Spotify playlists..."
    [] OTHER -> "Complete!"

\* progress checkpoints of buildWorldAsync, in program order
BuildProgress == <<10, 25, 35, 45, 55, 65, 80, 90, 95, 100>>

BuildStepName(p) ==
  CASE p = 10 -> "Fetching seed tracks..."
    [] p = 25 -> "Analyzing audio features..."
    [] p = 35 -> "Fetching artist genres..."
    [] p = 45 -> "Enriching track data..."
    [] p = 55 -> "Computing taste vector..."
    [] p = 65 -> "Generating semantic embeddings..."
    [] p = 80 -> "Extracting world definition..."
    [] p = 90 -> "Finalizing world..."
    [] p = 95 -> "Saving world..."
    [] OTHER -> "Complete!"

\* the checkpoint written after checkpoint p (p = 0 is the handler's record)
NextOf(seq, p) ==
  IF p = 0 THEN seq[1]
  ELSE seq[(CHOOSE k \in 1..(Len(seq) - 1) : seq[k] = p) + 1]

\* steps whose body awaits an external call (catalog, embedder, extractor,
\* blob store) or dereferences its result, and so can reject
GenThrowSteps == {10, 30, 40, 50, 60, 80}

BuildThrowSteps == {10, 25, 35, 55, 65, 80, 90, 95}

GenUpdateProgress(store, jobId, progress) ==
  setUserKV(store, JobKey(jobId),
            [status |-> "generating", progress |-> progress,
             currentStep |-> GenStepName(progress)])

BuildUpdateProgress(store, jobId, progress) ==
  setUserKV(store, JobKey(jobId),
            [status |-> "building", progress |-> progress,
             currentStep |-> BuildStepName(progress)])

Response(endpoint, code, jobId, body) ==
  [endpoint |-> endpoint, statusCode |-> code, jobId |-> jobId, body |-> body]

NewRun(kind, user, jobId, world, seeds) ==
  [kind |-> kind, user |-> user, jobId |-> jobId, pc |-> 0,
   phase |-> "running", world |-> world, seedTrackIds |-> seeds,
   intersections |-> <<>>, error |-> "", catalogFailed |-> FALSE]

Init ==
  /\ now = 1
  /\ kv = <<>>
  /\ worlds = <<>>
  /\ runs = <<>>
  /\ resp = Response("none", 0, "", Null)
  /\ pworld = Null
  /\ cands = <<>>
  /\ calls = <<>>
  /\ responses = <<>>
  /\ candidates = <<>>
  /\ playlists = <<>>
  /\ pstage = "idle"
  /\ worldDef = Null
  /\ buildAvgFeatures = Null
  /\ worldIntersections = <<>>
  /\ ClientIdle
  /\ StyleIdle
  /\ PageIdle

\* the clock advances between any two events
Tick ==
  /\ now < MaxClock
  /\ now' = now + 1
  /\ UNCHANGED <<kv, worlds, runs, resp>>
  /\ UNCHANGED <<pipeVars, biasVars, clientVars, styleVars, pageVars>>

\* ------------------------------------------- generate-playlists.ts handler
\* POST /api/generate-playlists up to the await of the initial job record.
\* The early returns (401 without a session or access token, 404 without a
\* world) change nothing and are the guard.
StartGenerate(session) ==
  /\ Len(runs) < MaxRuns
  /\ session # Null
  /\ session.accessToken # ""
  /\ getWorldBlob(worlds, session.spotifyId) # Null
  /\ LET world == getWorldBlob(worlds, session.spotifyId)
         jobId == GenerateJobId(session.spotifyId, now)
     IN /\ kv' = setUserKV(kv, JobKey(jobId),
                           [status |-> "generating", progress |-> 0])
        /\ runs' = Append(runs, NewRun("generate", session.spotifyId,
                                       jobId, world, world.seedTrackIds))
  /\ UNCHANGED <<now, worlds, resp>>
  /\ UNCHANGED <<pipeVars, biasVars, clientVars, styleVars, pageVars>>

\* a generate step that loads the stored world again when it completes
GenStepRereading(i) ==
  /\ i \in 1..Len(runs)
  /\ runs[i].kind = "generate"
  /\ runs[i].phase = "running"
  /\ LET r == runs[i] IN
     IF r.pc = 100
     THEN /\ kv' = setUserKV(kv, JobKey(r.jobId),
                             [status |-> "complete",
                              playlistCount |->
                                Len(getWorldBlob(worlds, r.user).intersections)])
          /\ runs' = [runs EXCEPT ![i].phase = "complete"]
     ELSE \E catalogError \in (IF r.pc = 90 THEN BOOLEAN ELSE {FALSE}) :
            /\ kv' = GenUpdateProgress(kv, r.jobId, NextOf(GenProgress, r.pc))
            /\ runs' = [runs EXCEPT ![i].pc = NextOf(GenProgress, r.pc),
                                    ![i].catalogFailed = catalogError]
  /\ UNCHANGED <<now, worlds, resp>>
  /\ UNCHANGED <<pipeVars, biasVars, clientVars, styleVars, pageVars>>

\* one step of generatePlaylistsAsync that resolves: the body of the step at
\* checkpoint pc, then the next write to the job record.  From pc = 0 the
\* handler starts the pipeline (first checkpoint) and answers 202 with jobId.
GenStep(i) ==
  /\ i \in 1..Len(runs)
  /\ runs[i].kind = "generate"
  /\ runs[i].phase = "running"
  /\ LET r == runs[i] IN
     IF r.pc = 100
     THEN /\ kv' = setUserKV(kv, JobKey(r.jobId),
                             [status |-> "complete",
                              playlistCount |-> Len(r.world.intersections)])
          /\ runs' = [runs EXCEPT ![i].phase = "complete"]
     ELSE \* createSpotifyPlaylists (pc = 90) catches every catalog error
          \E catalogError \in (IF r.pc = 90 THEN BOOLEAN ELSE {FALSE}) :
            /\ kv' = GenUpdateProgress(kv, r.jobId, NextOf(GenProgress, r.pc))
            /\ runs' = [runs EXCEPT ![i].pc = NextOf(GenProgress, r.pc),
                                    ![i].catalogFailed = catalogError]
  /\ UNCHANGED <<now, worlds, resp>>
  /\ UNCHANGED <<pipeVars, biasVars, clientVars, styleVars, pageVars>>

\* the record the handler's .catch writes when the pipeline rejects
FailureRecord(msg) == [status |-> "failed", error |-> msg]

\* a step of generatePlaylistsAsync rejects: the handler's .catch writes the
\* failure record
GenThrow(i) ==
  /\ i \in 1..Len(runs)
  /\ runs[i].kind = "generate"
  /\ runs[i].phase = "running"
  /\ runs[i].pc \in GenThrowSteps
  /\ \E msg \in ErrMsgs :
       /\ kv' = setUserKV(kv, JobKey(runs[i].jobId), FailureRecord(msg))
       /\ runs' = [runs EXCEPT ![i].phase = "failed", ![i].error = msg]
  /\ UNCHANGED <<now, worlds, resp>>
  /\ UNCHANGED <<pipeVars, biasVars, clientVars, styleVars, pageVars>>

\* ---------------------------------------------------- build-world handler
\* POST /api/build-world: the whole handler up to its return (401 without a
\* session, 400 on no seeds or no answers, else the initial job record, the
\* start of buildWorldAsync and 202).
StartBuild(session, seedTrackIds, hasAnswers) ==
  /\ Len(runs) < MaxRuns
  /\ IF session = Null
     THEN /\ resp' = Response("build-world", 401, "", [error |-> "Unauthorized"])
          /\ UNCHANGED <<kv, runs>>
     ELSE IF Len(seedTrackIds) = 0 \/ ~hasAnswers
     THEN /\ resp' = Response("build-world", 400, "",
                              [error |-> "Missing seedTrackIds or onboardingAnswers"])
          /\ UNCHANGED <<kv, runs>>
     ELSE LET jobId == BuildJobId(session.spotifyId, now) IN
          /\ kv' = setUserKV(kv, JobKey(jobId),
                             [status |-> "building", progress |-> 0])
          /\ runs' = Append(runs, NewRun("build", session.spotifyId, jobId,
                                         Null, seedTrackIds))
          /\ resp' = Response("build-world", 202, jobId,
                              [message |-> "World building started"])
  /\ UNCHANGED <<now, worlds>>
  /\ UNCHANGED <<pipeVars, biasVars, clientVars, styleVars, pageVars>>

\* the world object buildWorldAsync assembles in step 8
BuildWorldObject(r, t) ==
  [id |-> "world-" \o r.user \o "-" \o ToString(t),
   userId |-> r.user,
   createdAt |-> t,
   seedTrackIds |-> r.seedTrackIds,
   intersections |-> r.intersections]

\* one step of buildWorldAsync that resolves
BuildStep(i) ==
  /\ i \in 1..Len(runs)
  /\ runs[i].kind = "build"
  /\ runs[i].phase = "running"
  /\ LET r == runs[i] IN
     IF r.pc = 100
     THEN /\ kv' = setUserKV(kv, JobKey(r.jobId),
                             [status |-> "complete", worldId |-> r.world.id])
          /\ runs' = [runs EXCEPT ![i].phase = "complete"]
          /\ UNCHANGED worlds
     ELSE IF r.pc = 95
     THEN \* putWorldBlob, then the user record, then checkpoint 100
          /\ worlds' = putWorldBlob(worlds, r.user, r.world)
          /\ kv' = BuildUpdateProgress(
                     setUserKV(kv, "user:" \o r.user,
                               [hasWorld |-> TRUE, worldId |-> r.world.id,
                                worldCreatedAt |-> r.world.createdAt]),
                     r.jobId, 100)
          /\ runs' = [runs EXCEPT ![i].pc = 100]
     ELSE \* extractWorldDefinition (pc = 80) returns the intersections
          \E extracted \in (IF r.pc = 80 THEN ExtractedIntersections
                                        ELSE {r.intersections}) :
            /\ kv' = BuildUpdateProgress(kv, r.jobId, NextOf(BuildProgress, r.pc))
            /\ runs' = [runs EXCEPT
                 ![i].pc = NextOf(BuildProgress, r.pc),
                 ![i].intersections = extracted,
                 ![i].world = IF r.pc = 90 THEN BuildWorldObject(r, now)
                                          ELSE r.world]
            /\ UNCHANGED worlds
  /\ UNCHANGED <<now, resp>>
  /\ UNCHANGED <<pipeVars, biasVars, clientVars, styleVars, pageVars>>

\* a step of buildWorldAsync rejects: the handler's .catch writes the
\* failure record
BuildThrow(i) ==
  /\ i \in 1..Len(runs)
  /\ runs[i].kind = "build"
  /\ runs[i].phase = "running"
  /\ runs[i].pc \in BuildThrowSteps
  /\ \E msg \in ErrMsgs :
       /\ kv' = setUserKV(kv, JobKey(runs[i].jobId), FailureRecord(msg))
       /\ runs' = [runs EXCEPT ![i].phase = "failed", ![i].error = msg]
  /\ UNCHANGED <<now, worlds, resp>>
  /\ UNCHANGED <<pipeVars, biasVars, clientVars, styleVars, pageVars>>

\* ------------------------------------------------ regenerate-one handler
\* POST /api/regenerate-one: the whole handler (it starts no pipeline).  The
\* early returns (401, 400 without playlistName, 404 without a world, 429
\* inside the cooldown) are the guard.
StartRegen(session, playlistName) ==
  /\ Len(runs) < MaxRuns
  /\ session # Null
  /\ playlistName # ""
  /\ getWorldBlob(worlds, session.spotifyId) # Null
  /\ LET cooldownKey == CooldownKey(session.spotifyId, playlistName)
         lastRegen == getUserKV(kv, cooldownKey)
         jobId == RegenJobId(session.spotifyId, playlistName, now)
     IN /\ ~(lastRegen # Null /\ (now - lastRegen.value) < cooldownMs)
        /\ kv' = setUserKV(
                   setUserKV(kv, JobKey(jobId),
                             [status |-> "regenerating",
                              playlistName |-> playlistName]),
                   cooldownKey, [value |-> now])
        /\ runs' = Append(runs,
             [NewRun("regenerate", session.spotifyId, jobId,
                     getWorldBlob(worlds, session.spotifyId), <<>>)
                EXCEPT !.phase = "returned"])
  /\ UNCHANGED <<now, worlds, resp>>
  /\ UNCHANGED <<pipeVars, biasVars, clientVars, styleVars, pageVars>>

\* --------------------------------------------------- world-status handler
\* GET /api/world-status?jobId=...
PollStatus(session, jobId) ==
  /\ IF session = Null
     THEN resp' = Response("world-status", 401, "", [error |-> "Unauthorized"])
     ELSE IF jobId = ""
     THEN resp' = Response("world-status", 400, jobId,
                           [error |-> "Missing jobId parameter"])
     ELSE LET jobStatus == getUserKV(kv, "job:" \o jobId) IN
          IF jobStatus = Null
          THEN resp' = Response("world-status", 404, jobId,
                                [error |-> "Job not found"])
          ELSE resp' = Response("world-status", 200, jobId, jobStatus)
  /\ UNCHANGED <<now, kv, worlds, runs>>
  /\ UNCHANGED <<pipeVars, biasVars, clientVars, styleVars, pageVars>>

\* the job ids the start endpoints have handed out
JobIds == {runs[i].jobId : i \in 1..Len(runs)}

Next ==
  \/ Tick
  \/ \E s \in Sessions : StartGenerate(s)
  \/ \E i \in 1..MaxRuns : GenStep(i)
  \/ \E i \in 1..MaxRuns : GenThrow(i)
  \/ \E s \in Sessions, seeds \in SeedInputs, a \in BOOLEAN : StartBuild(s, seeds, a)
  \/ \E i \in 1..MaxRuns : BuildStep(i)
  \/ \E i \in 1..MaxRuns : BuildThrow(i)
  \/ \E s \in Sessions, p \in PlaylistNames \cup {""} : StartRegen(s, p)
  \/ \E s \in Sessions, j \in JobIds \cup {""} : PollStatus(s, j)

Spec == Init /\ [][Next]_vars

\* Every awaited call returns or throws, and the event loop then resumes the
\* pipeline: a run that can take a step eventually takes one.
FairSpec ==
  /\ Spec
  /\ \A i \in 1..MaxRuns :
       WF_vars(GenStep(i) \/ GenThrow(i) \/ BuildStep(i) \/ BuildThrow(i))

\* ------------------------------------------------------------ job claims
JobRecord(jobId) == kv[JobKey(jobId)]

Terminal(rec) == rec.status \in {"complete", "failed"}

\* the start endpoint has answered 202 with the run's job id
Returned(r) == r.pc > 0 \/ r.phase # "running"

PipelineRun(r) == r.kind \in {"build", "generate"}

\* C1: once a start endpoint has returned a job id, every authorized status
\* query with that id answers 200 with the record last written for the job
\* (never 404 'Job not found').
C1_StatusReturnsLatestRecord ==
  [][\A i \in 1..Len(runs) :
       ( /\ Returned(runs[i])
         /\ resp' # resp
         /\ resp'.endpoint = "world-status"
         /\ resp'.statusCode \notin {400, 401}
         /\ resp'.jobId = runs[i].jobId )
       => ( /\ resp'.statusCode = 200
            /\ resp'.body = JobRecord(runs[i].jobId) )]_vars

\* C2: the progress values written to a build or generate job's record, up
\* to its terminal record, never decrease and lie in 0..100.
C2_ProgressNonDecreasing ==
  [][\A i \in 1..Len(runs) :
       LET k == JobKey(runs[i].jobId) IN
       ( /\ PipelineRun(runs[i])
         /\ "progress" \in DOMAIN kv'[k] )
       => ( /\ kv'[k].progress \in 0..100
            /\ ("progress" \in DOMAIN kv[k] => kv'[k].progress >= kv[k].progress) )]_vars

\* C3: a run that has written its terminal record writes nothing more, and a
\* job record that is complete or failed never changes status again.
C3_TerminalImmutable ==
  [][\A i \in 1..Len(runs) :
       LET k == JobKey(runs[i].jobId) IN
       /\ (runs[i].phase \in {"complete", "failed"} => runs'[i] = runs[i])
       /\ (Terminal(kv[k]) => kv'[k].status = kv[k].status)]_vars

\* C4: two starts of the same kind by the same user never get the same job
\* id, so no two runs write to one job record.
C4_DistinctJobIds ==
  \A i, j \in 1..Len(runs) :
    (i # j /\ runs[i].kind = runs[j].kind /\ runs[i].user = runs[j].user)
      => runs[i].jobId # runs[j].jobId

\* C5: when a pipeline step throws, the job's record becomes the failure
\* record with the thrown message, and the job's record is never complete.
C5_ThrowMeansFailed ==
  [][\A i \in 1..Len(runs) :
       LET k == JobKey(runs[i].jobId) IN
       (PipelineRun(runs[i]) /\ runs'[i].phase = "failed")
       => ( /\ kv[k].status # "complete"
            /\ kv'[k].status # "complete"
            /\ (runs[i].phase # "failed"
                  => kv'[k] = [status |-> "failed", error |-> runs'[i].error]) )]_vars

\* C6: every started job (build, generate, regenerate) eventually has a
\* record with status complete or failed.
C6_EveryJobTerminates ==
  \A i \in 1..MaxRuns :
    (i <= Len(runs)) ~> (i <= Len(runs) /\ Terminal(JobRecord(runs[i].jobId)))

\* C7: a generate job whose materialization step met a catalog write error
\* ends with status failed, not complete.
C7_CatalogErrorFailsJob ==
  \A i \in 1..Len(runs) :
    (runs[i].catalogFailed /\ runs[i].phase # "running")
      => JobRecord(runs[i].jobId).status = "failed"

\* ----------------------------- generate-playlists.ts: one run's job record
\* the job whose pipeline the data-level specifications follow
PipelineJobId == GenerateJobId("u1", 1)

otherJobVars == <<now, worlds, runs, resp>>

\* await updateProgress(jobId, progress, ...) of the run
WriteProgress(progress) ==
  kv' = GenUpdateProgress(kv, PipelineJobId, progress)

\* the handler's .catch after the pipeline rejected with msg
WriteFailure(msg) ==
  kv' = setUserKV(kv, JobKey(PipelineJobId), FailureRecord(msg))

\* ------------------------------------------- generate-playlists.ts: bucketing
\* Fixed point: audio features in thousandths (valence 0.8 is 800), tempo in
\* tenths of a BPM (120 BPM is 1200), scores in ten-thousandths (0.03 is
\* 300), so that (1 - |d|) * 0.1 is the integer 1000 - |d|.

MaxCands == 85

WindowSize == 80

PlaylistSize == 50

MaxPerGenre == 8

Abs(x) == IF x < 0 THEN 0 - x ELSE x

Max(a, b) == IF a >= b THEN a ELSE b

\* Array.prototype.slice(start, end) on a sequence
slice(s, start, end) ==
  SubSeq(s, start + 1, IF end < Len(s) THEN end ELSE Len(s))

\* { ...obj, [field]: value }
With(obj, field, value) == (field :> value) @@ obj

\* leaves the list as it is (no sort)
KeepOrder(s, field) == s

\* Array.prototype.sort((a, b) => b[field] - a[field]): descending and stable.
\* Element i lands behind the elements that compare above it and the equal
\* ones that stood before it.
SortDesc(s, field) ==
  LET n == Len(s)
      rank == SubSeq([i \in 1..n |->
                        1 + Cardinality({j \in 1..n :
                                           \/ s[j][field] > s[i][field]
                                           \/ /\ s[j][field] = s[i][field]
                                              /\ j < i})],
                     1, n)
  IN SubSeq([r \in 1..n |-> s[CHOOSE i \in 1..n : rank[i] = r]], 1, n)

GenreCount(genreCounts, g) ==
  IF g \in DOMAIN genreCounts THEN genreCounts[g] ELSE 0

\* track.genres[0] || 'unknown'
PrimaryGenre(track) ==
  IF Len(track.genres) > 0 /\ track.genres[1] # ""
    THEN track.genres[1]
    ELSE "unknown"

ArtistIds(track) == {track.artists[k].id : k \in 1..Len(track.artists)}

\* one iteration of the for loop of enforceDiversity; st.stopped is the break
DiversityIteration(st, track) ==
  LET primaryGenre == PrimaryGenre(track) IN
  IF st.stopped THEN st
  ELSE IF ArtistIds(track) \cap st.usedArtists # {} THEN st
  ELSE IF track.album.id \in st.usedAlbums THEN st
  ELSE IF GenreCount(st.genreCounts, primaryGenre) >= MaxPerGenre THEN st
  ELSE [selected |-> Append(st.selected, track),
        usedArtists |-> st.usedArtists \cup ArtistIds(track),
        usedAlbums |-> st.usedAlbums \cup {track.album.id},
        genreCounts |->
          (primaryGenre :> (GenreCount(st.genreCounts, primaryGenre) + 1))
          @@ st.genreCounts,
        stopped |-> Len(st.selected) + 1 >= PlaylistSize]

\* the iterations lo..hi of the loop, in order, from loop state st; the
\* state after the first half is bound once and handed to the second half
RECURSIVE DiversityLoop(_, _, _, _)
DiversityLoop(tracks, lo, hi, st) ==
  IF lo > hi THEN st
  ELSE IF lo = hi THEN DiversityIteration(st, tracks[lo])
  ELSE LET mid == (lo + hi) \div 2
       IN CHOOSE after \in
            {IF left.stopped THEN left
                             ELSE DiversityLoop(tracks, mid + 1, hi, left) :
               left \in {DiversityLoop(tracks, lo, mid, st)}} : TRUE

\* the selection without the three diversity tests
TakeAll(tracks) == slice(tracks, 0, PlaylistSize)

enforceDiversity(tracks) ==
  DiversityLoop(tracks, 1, Len(tracks),
                [selected |-> <<>>, usedArtists |-> {}, usedAlbums |-> {},
                 genreCounts |-> <<>>, stopped |-> FALSE]).selected

\* the score of a track under one intersection's bias map
BiasedScore(track, bias) ==
  track.score
  + (IF "valence" \in DOMAIN bias
       THEN 1000 - Abs(track.audioFeatures.valence - bias.valence) ELSE 0)
  + (IF "energy" \in DOMAIN bias
       THEN 1000 - Abs(track.audioFeatures.energy - bias.energy) ELSE 0)
  + (IF "tempo" \in DOMAIN bias
       THEN Max(0, 1000 - Abs(track.audioFeatures.tempo - bias.tempo)) ELSE 0)

\* bucketing one intersection with the biased score written into score too
BucketOneOverwriting(tracks, intersection) ==
  LET biasedTracks ==
        [i \in 1..Len(tracks) |->
           With(With(tracks[i], "biasedScore",
                     BiasedScore(tracks[i], intersection.bias)),
                "score", BiasedScore(tracks[i], intersection.bias))]
  IN [name |-> intersection.name,
      description |-> intersection.description,
      tracks |-> slice(enforceDiversity(
                         slice(SortDesc(biasedTracks, "biasedScore"),
                               0, WindowSize)),
                       0, PlaylistSize)]

BucketOne(tracks, intersection) ==
  LET biasedTracks ==
        [i \in 1..Len(tracks) |->
           With(tracks[i], "biasedScore",
                BiasedScore(tracks[i], intersection.bias))]
  IN CHOOSE playlist \in
       {LET diverse == enforceDiversity(slice(sorted, 0, WindowSize))
        IN [name |-> intersection.name,
            description |-> intersection.description,
            tracks |-> slice(diverse, 0, PlaylistSize)] :
          sorted \in {SortDesc(biasedTracks, "biasedScore")}} : TRUE

bucketIntoIntersections(tracks, world) ==
  [k \in 1..Len(world.intersections) |->
     BucketOne(tracks, world.intersections[k])]

\* ---------------------------------------------- generate-playlists.ts: bonuses
Range(seq) == {seq[k] : k \in 1..Len(seq)}

\* genreCounts.get(g) || 0 after the counting loop of applyBonuses
CandidateGenreCount(tracks, g) ==
  Cardinality({ik \in UNION {{<<i, k>> : k \in 1..Len(tracks[i].genres)} :
                               i \in 1..Len(tracks)} :
                 tracks[ik[1]].genres[ik[2]] = g})

RECURSIVE SumGenreCounts(_, _, _)
SumGenreCounts(tracks, genres, k) ==
  IF k = 0 THEN 0
  ELSE SumGenreCounts(tracks, genres, k - 1)
       + CandidateGenreCount(tracks, genres[k])

\* 0.15 when none of the track's artists is one of world.topArtists
NoveltyBonus(track, world) ==
  LET seedArtists == IF "topArtists" \in DOMAIN world
                       THEN Range(world.topArtists) ELSE {}
  IN IF ArtistIds(track) \cap seedArtists = {} THEN 150 ELSE 0

\* avgGenreCount < 10 ? 0.1 : avgGenreCount < 30 ? 0.05 : 0, where the
\* average is sum / length and is 1000 for a track without genres
DiversityBonus(tracks, track) ==
  LET len == Len(track.genres)
      sum == SumGenreCounts(tracks, track.genres, len)
  IN IF len = 0 THEN 0
     ELSE IF sum < 10 * len THEN 100
     ELSE IF sum < 30 * len THEN 50
     ELSE 0

\* 0.4 semanticScore + 0.3 spotifyScore + 0.2 noveltyBonus + 0.1 diversityBonus,
\* in ten-thousandths from components in thousandths
CombinedScore(semanticScore, spotifyScore, noveltyBonus, diversityBonus) ==
  4 * semanticScore + 3 * spotifyScore + 2 * noveltyBonus + diversityBonus

applyBonuses(tracks, world) ==
  [i \in 1..Len(tracks) |->
     LET track == tracks[i]
         noveltyBonus == NoveltyBonus(track, world)
         diversityBonus == DiversityBonus(tracks, track)
     IN [track EXCEPT
           !.noveltyBonus = noveltyBonus,
           !.diversityBonus = diversityBonus,
           !.score = CombinedScore(track.semanticScore, track.spotifyScore,
                                   noveltyBonus, diversityBonus)]]

\* Step 7 of generatePlaylistsAsync
BonusStep ==
  /\ pstage = "scored"
  /\ cands' = applyBonuses(cands, pworld)
  /\ pstage' = "bonused"
  /\ UNCHANGED <<pworld, calls, responses, candidates, playlists>>
  /\ WriteProgress(70)
  /\ UNCHANGED <<otherJobVars, biasVars, clientVars, styleVars, pageVars>>

\* Steps 8 and 9 of generatePlaylistsAsync
SortStep ==
  /\ pstage = "bonused"
  /\ cands' = SortDesc(cands, "score")
  /\ pstage' = "sorted"
  /\ UNCHANGED <<pworld, calls, responses, candidates, playlists>>
  /\ UNCHANGED kv
  /\ UNCHANGED <<otherJobVars, biasVars, clientVars, styleVars, pageVars>>

BucketStep ==
  /\ pstage = "sorted"
  /\ playlists' = bucketIntoIntersections(cands, pworld)
  /\ pstage' = "bucketed"
  /\ UNCHANGED <<pworld, calls, responses, candidates, cands>>
  /\ WriteProgress(80)
  /\ UNCHANGED <<otherJobVars, biasVars, clientVars, styleVars, pageVars>>

\* Steps 10 and 11 of generatePlaylistsAsync: createSpotifyPlaylists catches
\* whatever its catalog calls throw, then the run writes the complete record
CompleteStep ==
  /\ pstage = "bucketed"
  /\ pstage' = "complete"
  /\ kv' = setUserKV(kv, JobKey(PipelineJobId),
                     [status |-> "complete", playlistCount |-> Len(playlists)])
  /\ UNCHANGED <<pworld, calls, responses, candidates, cands, playlists>>
  /\ UNCHANGED <<otherJobVars, biasVars, clientVars, styleVars, pageVars>>

\* ---------------------------------------------- scored candidate lists
\* A family of candidate lists as scoreWithEmbeddings returns them.  Track i of a list has its own id;
\* artistBlock consecutive tracks share an artist, albums repeat with period
\* albumPeriod, primary genres cycle through genreKinds genres and one
\* genre-less slot, and every fifth track of a list with collab also credits
\* the artist of the track behind it.
ArtistOf(i, artistBlock) == "a" \o ToString((i - 1) \div artistBlock)

SemanticScoreOf(i, pattern) ==
  CASE pattern = "flat" -> 500
    [] pattern = "desc" -> 900 - 2 * i
    [] pattern = "asc" -> 100 + 2 * i
    [] OTHER -> 200 + (100 * (i % 4))

FeaturesOf(i) ==
  [id |-> "t" \o ToString(i),
   danceability |-> (i * 53) % 1001,
   energy |-> (i * 311) % 1001,
   speechiness |-> 50,
   acousticness |-> (i * 211) % 1001,
   instrumentalness |-> 100,
   liveness |-> 150,
   valence |-> (i * 137) % 1001,
   tempo |-> 600 + ((i * 97) % 1401),
   loudness |-> 0 - 8000]

GenresOf(i, genreKinds) ==
  IF genreKinds = 0 \/ i % (genreKinds + 1) = genreKinds
    THEN <<>>
    ELSE <<"g" \o ToString(i % (genreKinds + 1)), "pop">>

ScoredTrack(i, artistBlock, albumPeriod, genreKinds, collab, pattern) ==
  [id |-> "t" \o ToString(i),
   artists |->
     IF collab /\ i % 5 = 0
       THEN <<[id |-> ArtistOf(i, artistBlock)],
              [id |-> ArtistOf(i + 1, artistBlock)]>>
       ELSE <<[id |-> ArtistOf(i, artistBlock)]>>,
   album |-> [id |-> "b" \o ToString(i % albumPeriod)],
   audioFeatures |-> FeaturesOf(i),
   genres |-> GenresOf(i, genreKinds),
   score |-> 0,
   semanticScore |-> SemanticScoreOf(i, pattern),
   spotifyScore |-> 400,
   noveltyBonus |-> 0,
   diversityBonus |-> 0]

ScoredLists ==
  {[i \in 1..n |-> ScoredTrack(i, ab, ap, gk, co, pt)] :
     n \in {0, 1, 12, MaxCands},
     ab \in {1, 2, 30},
     ap \in {5, 40, 97},
     gk \in {0, 2, 9},
     co \in BOOLEAN,
     pt \in {"flat", "desc", "asc", "saw"}}

\* world.intersections as build-world stores them: the bias map holds only
\* the features parseIntersectionBias set
IntersectionLists ==
  {<<>>,
   <<[name |-> "Night", description |-> "darker, calm",
      bias |-> [valence |-> 200, energy |-> 300]],
     [name |-> "Dawn", description |-> "", bias |-> <<>>]>>,
   <<[name |-> "Drive", description |-> "faster, organic",
      bias |-> [tempo |-> 1400, acousticness |-> 900]],
     [name |-> "Night", description |-> "darker",
      bias |-> [valence |-> 200]],
     [name |-> "Drive", description |-> "faster, driving",
      bias |-> [tempo |-> 1400, energy |-> 900]]>>}

\* A world as build-world stores it has no topArtists; the WorldDefinition
\* type has the field.
BucketWorlds ==
  {[intersections |-> il] : il \in IntersectionLists}
  \cup {[topArtists |-> <<"a0", "a3">>, intersections |-> il] :
          il \in IntersectionLists}

InitBucket ==
  /\ now = 1
  /\ kv = GenUpdateProgress(<<>>, PipelineJobId, 60)
  /\ worlds = <<>>
  /\ runs = <<>>
  /\ resp = Response("none", 0, "", Null)
  /\ pworld \in BucketWorlds
  /\ cands \in ScoredLists
  /\ calls = <<>>
  /\ responses = <<>>
  /\ candidates = <<>>
  /\ playlists = <<>>
  /\ pstage = "scored"
  /\ worldDef = Null
  /\ buildAvgFeatures = Null
  /\ worldIntersections = <<>>
  /\ ClientIdle
  /\ StyleIdle
  /\ PageIdle

NextBucket ==
  \/ BonusStep
  \/ SortStep
  \/ BucketStep
  \/ CompleteStep

SpecBucket == InitBucket /\ [][NextBucket]_vars

\* --------------------------------------- generate-playlists.ts: harvesting
MaxSeeds == 31

SeedWindow == 50

SlicesOfFive == 5

\* world.seedTrackIds of n seeds
Seeds(n) == [i \in 1..n |-> "s" \o ToString(i)]

\* what the recommendations endpoint can return for a track id
CatalogTrack(id) ==
  [id |-> id,
   artists |->
     CASE id = "s1" -> <<[id |-> "a1"]>>
       [] id = "s2" -> <<[id |-> "a2"]>>
       [] id = "t1" -> <<[id |-> "a1"]>>
       [] id = "t2" -> <<[id |-> "a3"]>>
       [] OTHER -> <<[id |-> "a4"], [id |-> "a3"]>>,
   album |->
     [id |-> CASE id = "s1" -> "b1"
               [] id = "s2" -> "b2"
               [] id = "t1" -> "b3"
               [] OTHER -> "b4"]]

\* response.tracks of one recommendations request
RecommendationResponses ==
  {<<>>,
   <<CatalogTrack("s1")>>,
   <<CatalogTrack("t1"), CatalogTrack("t2"), CatalogTrack("s2")>>,
   <<CatalogTrack("t3"), CatalogTrack("t1"), CatalogTrack("t3")>>}

\* value || fallback on numbers
OrDefault(value, fallback) == IF value = 0 THEN fallback ELSE value

Min(a, b) == IF a <= b THEN a ELSE b

\* computeAverageFeatures(world): the centroid's entries read by position
computeAverageFeatures(world) ==
  LET centroid == world.tasteCentroid IN
  [acousticness |-> centroid[1],
   danceability |-> centroid[2],
   energy |-> centroid[3],
   instrumentalness |-> centroid[4],
   liveness |-> centroid[5],
   loudness |-> centroid[6],
   speechiness |-> centroid[7],
   valence |-> centroid[8],
   tempo |-> centroid[9]]

\* the parameters of the n-th getRecommendations call; targets in thousandths
RecommendationParams(n, world) ==
  LET limitedSeeds == slice(world.seedTrackIds, 0, SeedWindow)
      avgFeatures == computeAverageFeatures(world)
      seed_tracks ==
        slice(limitedSeeds, SlicesOfFive * (n - 1), SlicesOfFive * n)
  IN CASE n = 1 -> [seed_tracks |-> seed_tracks, limit |-> 100]
       [] n = 2 ->
            [seed_tracks |-> seed_tracks, limit |-> 100,
             target_acousticness |-> OrDefault(avgFeatures.acousticness, 500),
             target_valence |-> OrDefault(avgFeatures.valence, 500),
             target_energy |-> OrDefault(avgFeatures.energy, 500)]
       [] n = 3 ->
            [seed_tracks |-> seed_tracks, limit |-> 100,
             target_tempo |-> OrDefault(avgFeatures.tempo, 120000),
             target_instrumentalness |->
               OrDefault(avgFeatures.instrumentalness, 100)]
       [] n = 4 ->
            [seed_tracks |-> seed_tracks, limit |-> 100,
             target_valence |->
               Max(0, OrDefault(avgFeatures.valence, 500) - 200),
             target_energy |->
               Max(0, OrDefault(avgFeatures.energy, 500) - 100)]
       [] n = 5 ->
            [seed_tracks |-> seed_tracks, limit |-> 100,
             target_acousticness |->
               Min(1000, OrDefault(avgFeatures.acousticness, 500) + 200)]
       [] OTHER ->
            [seed_tracks |-> seed_tracks, limit |-> 100,
             target_danceability |->
               OrDefault(avgFeatures.danceability, 500)]

\* how many getRecommendations calls harvestCandidates makes
HarvestCalls(world) ==
  IF Len(slice(world.seedTrackIds, 0, SeedWindow)) > 30 THEN 6 ELSE 5

\* pushes every new track, seen or not
PushAll(list, newTracks) == list \o newTracks

RECURSIVE addUnique(_, _)
addUnique(list, newTracks) ==
  IF newTracks = <<>> THEN list
  ELSE addUnique(
         IF \E k \in 1..Len(list) : list[k].id = Head(newTracks).id
           THEN list
           ELSE Append(list, Head(newTracks)),
         Tail(newTracks))

\* One step of harvestCandidates: the early return for a world without seeds,
\* or the next getRecommendations call resolving with response.tracks.
Harvest(response) ==
  /\ pstage \in {"start", "harvesting"}
  /\ IF Len(pworld.seedTrackIds) = 0
       THEN /\ candidates' = <<>>
            /\ cands' = <<>>
            /\ pstage' = "harvested"
            /\ UNCHANGED <<calls, responses>>
       ELSE LET n == Len(calls) + 1
                list == addUnique(cands, response)
            IN /\ calls' = Append(calls, RecommendationParams(n, pworld))
               /\ responses' = Append(responses, response)
               /\ cands' = list
               /\ IF n = HarvestCalls(pworld)
                    THEN candidates' = list /\ pstage' = "harvested"
                    ELSE UNCHANGED candidates /\ pstage' = "harvesting"
  /\ UNCHANGED <<pworld, playlists>>
  /\ WriteProgress(10)
  /\ UNCHANGED <<otherJobVars, biasVars, clientVars, styleVars, pageVars>>

\* the blocklist filter that lets every candidate through
KeepCandidates(list, world) == list

\* candidates.filter(track => !blocklist.has(track.id))
filterBlocklist(list, world) ==
  LET blocklist == Range(world.seedTrackIds)
      NotBlocked(track) == track.id \notin blocklist
  IN SelectSeq(list, NotBlocked)

\* Step 2 of generatePlaylistsAsync
FilterStep ==
  /\ pstage = "harvested"
  /\ cands' = filterBlocklist(cands, pworld)
  /\ pstage' = "filtered"
  /\ responses' = <<>>   \* harvestCandidates has returned, its locals are gone
  /\ UNCHANGED <<pworld, calls, candidates, playlists>>
  /\ WriteProgress(20)
  /\ UNCHANGED <<otherJobVars, biasVars, clientVars, styleVars, pageVars>>

\* ------------------------------- generate-playlists.ts: enrichment, scoring
IdIndex(id) ==
  CASE id = "s1" -> 1
    [] id = "s2" -> 2
    [] id = "t1" -> 3
    [] id = "t2" -> 4
    [] OTHER -> 5

\* the audio-features object the catalog holds for a track id
TrackFeatures(id) == [FeaturesOf(IdIndex(id)) EXCEPT !.id = id]

\* getAudioFeatures: the endpoint answers null for the ids in missing, and
\* filter(Boolean) drops the nulls
getAudioFeatures(trackIds, missing) ==
  LET Present(id) == id \notin missing
      kept == SelectSeq(trackIds, Present)
  IN [k \in 1..Len(kept) |-> TrackFeatures(kept[k])]

\* tracks.map((track, i) => ({ ...track, audioFeatures: features[i] }))
enrichWithAudioFeatures(tracks, features) ==
  [i \in 1..Len(tracks) |->
     With(tracks[i], "audioFeatures",
          IF i <= Len(features) THEN features[i] ELSE Null)]

\* the sets of track ids for which the audio-features endpoint answers null
MissingSets == {{}, {"t1"}, {"t2", "t3"}}

\* Step 3 of generatePlaylistsAsync
FeaturesStep(missing) ==
  /\ pstage = "filtered"
  /\ cands' = enrichWithAudioFeatures(
                cands,
                getAudioFeatures([i \in 1..Len(cands) |-> cands[i].id],
                                 missing))
  /\ pstage' = "featured"
  /\ UNCHANGED <<pworld, calls, responses, candidates, playlists>>
  /\ WriteProgress(30)
  /\ UNCHANGED <<otherJobVars, biasVars, clientVars, styleVars, pageVars>>

\* reading f.valence of an undefined audioFeatures throws a TypeError
CoarseFilterThrows(tracks, world) ==
  /\ world.featureRanges # Null
  /\ \E i \in 1..Len(tracks) : tracks[i].audioFeatures = Null

applyCoarseFilters(tracks, world) ==
  LET ranges == world.featureRanges
      InRange(track) ==
        LET f == track.audioFeatures IN
          /\ f.valence >= ranges.valence[1] - 200
          /\ f.valence <= ranges.valence[2] + 200
          /\ f.energy >= ranges.energy[1] - 200
          /\ f.energy <= ranges.energy[2] + 200
          /\ f.tempo >= ranges.tempo[1] - 200
          /\ f.tempo <= ranges.tempo[2] + 200
          /\ f.acousticness >= ranges.acousticness[1] - 200
  IN IF ranges = Null THEN tracks ELSE SelectSeq(tracks, InRange)

\* Step 4 of generatePlaylistsAsync
CoarseStep ==
  /\ pstage = "featured"
  /\ IF CoarseFilterThrows(cands, pworld)
       THEN /\ pstage' = "failed"
            /\ WriteFailure("Cannot read properties of undefined (reading 'valence')")
            /\ UNCHANGED cands
       ELSE /\ cands' = applyCoarseFilters(cands, pworld)
            /\ pstage' = "coarse"
            /\ WriteProgress(40)
  /\ UNCHANGED <<pworld, calls, responses, candidates, playlists>>
  /\ UNCHANGED <<otherJobVars, biasVars, clientVars, styleVars, pageVars>>

\* the genres the catalog holds for an artist id
ArtistGenres(artistId) ==
  CASE artistId = "a1" -> <<"indie", "pop">>
    [] artistId = "a2" -> <<"pop">>
    [] artistId = "a3" -> <<"pop", "ambient">>
    [] OTHER -> <<"jazz", "pop">>

RECURSIVE FlatGenres(_, _)
FlatGenres(artists, k) ==
  IF k = 0 THEN <<>>
  ELSE FlatGenres(artists, k - 1) \o ArtistGenres(artists[k].id)

\* [...new Set(genres)]: first occurrences, in order
Dedupe(seq) ==
  LET First(k) == \A j \in 1..(k - 1) : seq[j] # seq[k]
      keep == {k \in 1..Len(seq) : First(k)}
  IN [r \in 1..Cardinality(keep) |->
        seq[CHOOSE k \in keep : Cardinality({j \in keep : j <= k}) = r]]

enrichWithGenres(tracks) ==
  [i \in 1..Len(tracks) |->
     [id |-> tracks[i].id,
      artists |-> tracks[i].artists,
      album |-> tracks[i].album,
      audioFeatures |-> tracks[i].audioFeatures,
      genres |-> Dedupe(FlatGenres(tracks[i].artists,
                                   Len(tracks[i].artists))),
      score |-> 0,
      semanticScore |-> 0,
      spotifyScore |-> 0,
      noveltyBonus |-> 0,
      diversityBonus |-> 0]]

\* Step 5 of generatePlaylistsAsync
GenresStep ==
  /\ pstage = "coarse"
  /\ cands' = enrichWithGenres(cands)
  /\ pstage' = "enriched"
  /\ UNCHANGED <<pworld, calls, responses, candidates, playlists>>
  /\ WriteProgress(50)
  /\ UNCHANGED <<otherJobVars, biasVars, clientVars, styleVars, pageVars>>

\* math-utils.ts; tempo in tenths of a BPM and loudness in thousandths of a
\* dB give thousandths after the division
audioFeaturesToVector(features) ==
  <<features.danceability,
    features.energy,
    features.speechiness,
    features.acousticness,
    features.instrumentalness,
    features.liveness,
    features.valence,
    features.tempo \div 2,
    (0 - features.loudness) \div 60>>

\* the largest r in lo..hi with r * r <= n
RECURSIVE SqrtBetween(_, _, _)
SqrtBetween(n, lo, hi) ==
  IF lo >= hi THEN lo
  ELSE LET mid == (lo + hi + 1) \div 2
       IN IF mid * mid <= n THEN SqrtBetween(n, mid, hi)
          ELSE SqrtBetween(n, lo, mid - 1)

RECURSIVE SumSquares(_, _, _)
SumSquares(a, b, k) ==
  IF k = 0 THEN 0
  ELSE SumSquares(a, b, k - 1) + ((a[k] - b[k]) * (a[k] - b[k]))

\* Math.sqrt of the sum of squares, rounded down to a thousandth
euclideanDistance(a, b) == SqrtBetween(SumSquares(a, b, Len(a)), 0, 4000)

\* the cosine similarities the embedder's vectors can give, by track id
SemanticScorings ==
  {[id \in {"s1", "s2", "t1", "t2", "t3"} |-> 500],
   [id \in {"s1", "s2", "t1", "t2", "t3"} |-> 100 * IdIndex(id)]}

\* scoring that throws whatever the list
ThrowsAlways(tracks) == TRUE

\* inferStyle(undefined) and artists[0].name of an empty list throw
ScoringThrows(tracks) ==
  \E i \in 1..Len(tracks) :
    tracks[i].audioFeatures = Null \/ Len(tracks[i].artists) = 0

scoreWithEmbeddings(tracks, world, similarity) ==
  [i \in 1..Len(tracks) |->
     [tracks[i] EXCEPT
        !.semanticScore = similarity[tracks[i].id],
        !.spotifyScore =
          1000 - euclideanDistance(
                   audioFeaturesToVector(tracks[i].audioFeatures),
                   world.tasteCentroid)]]

\* Step 6 of generatePlaylistsAsync
ScoreStep(similarity) ==
  /\ pstage = "enriched"
  /\ IF ScoringThrows(cands)
       THEN /\ pstage' = "failed"
            /\ WriteFailure("Cannot read properties of undefined (reading 'energy')")
            /\ UNCHANGED cands
       ELSE /\ cands' = scoreWithEmbeddings(cands, pworld, similarity)
            /\ pstage' = "scored"
            /\ WriteProgress(60)
  /\ UNCHANGED <<pworld, calls, responses, candidates, playlists>>
  /\ UNCHANGED <<otherJobVars, biasVars, clientVars, styleVars, pageVars>>

\* an awaited catalog or embedder request rejects (a rejected
\* getRecommendations call was issued like any other); nothing is requested
\* for an empty list
UpstreamThrow ==
  /\ \/ pstage \in {"start", "harvesting"} /\ Len(pworld.seedTrackIds) > 0
     \/ pstage \in {"filtered", "coarse", "enriched"} /\ Len(cands) > 0
  /\ pstage' = "failed"
  /\ calls' = IF pstage \in {"start", "harvesting"}
                THEN Append(calls, RecommendationParams(Len(calls) + 1, pworld))
                ELSE calls
  /\ UNCHANGED <<pworld, responses, candidates, cands, playlists>>
  /\ \E msg \in ErrMsgs : WriteFailure(msg)
  /\ UNCHANGED <<otherJobVars, biasVars, clientVars, styleVars, pageVars>>

\* the worlds a generation run can load
GenWorlds ==
  {[seedTrackIds |-> Seeds(n),
    tasteCentroid |-> <<600, 550, 50, 0, 100, 150, 450, 580, 140>>,
    featureRanges |-> fr,
    intersections |->
      <<[name |-> "Night", description |-> "darker, calm",
         bias |-> [valence |-> 300, energy |-> 400]],
        [name |-> "Dawn", description |-> "", bias |-> <<>>]>>] :
     n \in {0, 1, 2, MaxSeeds - 1, MaxSeeds},
     fr \in {Null,
             [valence |-> <<200, 700>>, energy |-> <<300, 700>>,
              acousticness |-> <<100, 800>>, tempo |-> <<800, 1500>>,
              instrumentalness |-> <<0, 500>>,
              danceability |-> <<300, 800>>]}}

InitGen ==
  /\ now = 1
  /\ kv = setUserKV(<<>>, JobKey(PipelineJobId),
                    [status |-> "generating", progress |-> 0])
  /\ worlds = <<>>
  /\ runs = <<>>
  /\ resp = Response("none", 0, "", Null)
  /\ pworld \in GenWorlds
  /\ calls = <<>>
  /\ responses = <<>>
  /\ candidates = <<>>
  /\ cands = <<>>
  /\ playlists = <<>>
  /\ pstage = "start"
  /\ worldDef = Null
  /\ buildAvgFeatures = Null
  /\ worldIntersections = <<>>
  /\ ClientIdle
  /\ StyleIdle
  /\ PageIdle

NextGen ==
  \/ \E response \in RecommendationResponses : Harvest(response)
  \/ FilterStep
  \/ \E missing \in MissingSets : FeaturesStep(missing)
  \/ CoarseStep
  \/ GenresStep
  \/ \E similarity \in SemanticScorings : ScoreStep(similarity)
  \/ BonusStep
  \/ SortStep
  \/ BucketStep
  \/ CompleteStep
  \/ UpstreamThrow

SpecGen == InitGen /\ [][NextGen]_vars

\* Every awaited call of the run returns or throws and the event loop resumes
\* the pipeline, so a run that can take a step eventually takes one.
FairSpecGen == SpecGen /\ WF_vars(NextGen)

\* ------------------------------------------------------- bucketing claims
\* the primary genre of a track: its first resolved genre, 'unknown' if none
FirstGenre(t) == IF t.genres = <<>> THEN "unknown" ELSE t.genres[1]

SharedArtist(t, u) ==
  \E a \in 1..Len(t.artists), b \in 1..Len(u.artists) :
    t.artists[a].id = u.artists[b].id

\* C8: whatever the candidate list, a playlist the bucketer returns has no two
\* tracks with a common artist id, no two tracks with the same album id, and
\* at most 8 tracks of any one primary genre.
C8_PlaylistsAreDiverse ==
  pstage = "bucketed" =>
    \A k \in 1..Len(playlists) :
      LET ts == playlists[k].tracks IN
        /\ \A i, j \in 1..Len(ts) :
             i < j => /\ ~SharedArtist(ts[i], ts[j])
                      /\ ts[i].album.id # ts[j].album.id
        /\ \A i \in 1..Len(ts) :
             Cardinality({j \in 1..Len(ts) :
                            FirstGenre(ts[j]) = FirstGenre(ts[i])}) <= 8

\* a playlist that filled one genre to 8 and left candidates out, from a list
\* in which tracks share artists and albums
C8_Witness ==
  /\ pstage = "bucketed"
  /\ \E i, j \in 1..Len(cands) : i < j /\ SharedArtist(cands[i], cands[j])
  /\ \E i, j \in 1..Len(cands) : i < j /\ cands[i].album.id = cands[j].album.id
  /\ \E k \in 1..Len(playlists) :
       LET ts == playlists[k].tracks IN
         /\ Len(ts) < Len(cands)
         /\ \E i \in 1..Len(ts) :
              /\ Cardinality({j \in 1..Len(ts) :
                                FirstGenre(ts[j]) = FirstGenre(ts[i])}) = 8
              /\ Cardinality({j \in 1..Len(cands) :
                                FirstGenre(cands[j]) = FirstGenre(ts[i])}) > 8

\* the position in the bucketer's input of the candidate with the id of t
InputPos(t) == CHOOSE p \in 1..Len(cands) : cands[p].id = t.id

\* how many candidates stand before candidate p in the descending stable
\* order by biasedScore
Ahead(p, bias) ==
  Cardinality({q \in 1..Len(cands) :
                 \/ BiasedScore(cands[q], bias) > BiasedScore(cands[p], bias)
                 \/ /\ BiasedScore(cands[q], bias) = BiasedScore(cands[p], bias)
                    /\ q < p})

\* C9: the bucketer returns one playlist per entry of world.intersections, in
\* that order; each has at most 50 tracks, every one of them among the 80
\* candidates with the highest biasedScore for the intersection, listed by
\* non-increasing biasedScore with equal scores in input order.
C9_OnePlaylistPerIntersection ==
  pstage = "bucketed" =>
    /\ Len(playlists) = Len(pworld.intersections)
    /\ \A k \in 1..Len(playlists) :
         LET x == pworld.intersections[k]
             ts == playlists[k].tracks
         IN
           /\ playlists[k].name = x.name
           /\ Len(ts) <= 50
           /\ \A j \in 1..Len(ts) :
                /\ \E p \in 1..Len(cands) : cands[p].id = ts[j].id
                /\ ts[j].biasedScore = BiasedScore(cands[InputPos(ts[j])], x.bias)
                /\ Ahead(InputPos(ts[j]), x.bias) < 80
           /\ \A j \in 1..(Len(ts) - 1) :
                \/ ts[j].biasedScore > ts[j + 1].biasedScore
                \/ /\ ts[j].biasedScore = ts[j + 1].biasedScore
                   /\ InputPos(ts[j]) < InputPos(ts[j + 1])

\* more than 80 candidates and several intersections; one playlist has two
\* neighbours of equal biasedScore, and one stayed short of 50 although a
\* candidate behind the first 80 shares no artist and no album with its
\* tracks and its primary genre has room
C9_Witness ==
  /\ pstage = "bucketed"
  /\ Len(cands) > 80
  /\ Len(playlists) >= 2
  /\ \E k \in 1..Len(playlists) :
       \E j \in 1..(Len(playlists[k].tracks) - 1) :
         playlists[k].tracks[j].biasedScore
           = playlists[k].tracks[j + 1].biasedScore
  /\ \E k \in 1..Len(playlists) :
       LET ts == playlists[k].tracks IN
         /\ Len(ts) < 50
         /\ \E p \in 1..Len(cands) :
              /\ Ahead(p, pworld.intersections[k].bias) >= 80
              /\ \A j \in 1..Len(ts) :
                   /\ ~SharedArtist(cands[p], ts[j])
                   /\ cands[p].album.id # ts[j].album.id
              /\ Cardinality({j \in 1..Len(ts) :
                                FirstGenre(ts[j]) = FirstGenre(cands[p])}) < 8

\* ------------------------------------------------------- blocklist claims
SeedIds == Range(pworld.seedTrackIds)

\* the positions of list whose track is not a seed track
NonSeedPositions(list) == {i \in 1..Len(list) : list[i].id \notin SeedIds}

RECURSIVE Concat(_, _)
Concat(seqs, k) == IF k = 0 THEN <<>> ELSE Concat(seqs, k - 1) \o seqs[k]

\* every track the upstream queries returned so far, in call order
ReturnedTracks == Concat(responses, Len(responses))

\* the positions of ReturnedTracks that hold the first occurrence of their track id
FirstOccurrences ==
  {k \in 1..Len(ReturnedTracks) :
     \A j \in 1..(k - 1) : ReturnedTracks[j].id # ReturnedTracks[k].id}

\* C11: the harvested list holds no track id twice, and it lists the tracks
\* in the order of their first occurrence across the upstream queries taken in
\* call order.
C11_HarvestDedupesInCallOrder ==
  pstage \in {"harvesting", "harvested"} =>
    /\ \A i, j \in 1..Len(cands) : i # j => cands[i].id # cands[j].id
    /\ Len(cands) = Cardinality(FirstOccurrences)
    /\ \A k \in FirstOccurrences :
         cands[Cardinality({j \in FirstOccurrences : j <= k})] = ReturnedTracks[k]
    /\ pstage = "harvested" => candidates = cands

\* a finished harvest in which a later query returned a track again, behind
\* a track that query was the first to return
C11_Witness ==
  /\ pstage = "harvested"
  /\ Len(candidates) >= 3
  /\ \E k \in 1..Len(ReturnedTracks) :
       /\ k \notin FirstOccurrences
       /\ \E j \in FirstOccurrences : j < k /\ ReturnedTracks[j].id # ReturnedTracks[k].id
       /\ \E j \in FirstOccurrences : j > k

\* the record of the run's job in the store
PipelineRecord == kv[JobKey(PipelineJobId)]

\* C12: with an empty world.seedTrackIds the harvest fails (NoSeedTracks)
\* without sending an upstream query, and the job ends failed, never complete.
C12_NoSeedsFailsJob ==
  (Len(pworld.seedTrackIds) = 0 /\ pstage # "start") =>
    /\ calls = <<>>
    /\ pstage = "failed"
    /\ PipelineRecord.status = "failed"

EmptyPlaylists ==
  /\ Len(playlists) = Len(pworld.intersections)
  /\ \A k \in 1..Len(playlists) :
       /\ playlists[k].name = pworld.intersections[k].name
       /\ playlists[k].tracks = <<>>

\* C13: a generate run whose pool is empty after the blocklist filter runs
\* all remaining steps without throwing and ends complete, with one playlist
\* per intersection and no track in any of them.
\* (a run that threw stays failed, so reaching complete excludes a throw)
C13_EmptyPoolCompletes ==
  (pstage = "filtered" /\ cands = <<>>)
    ~> (/\ pstage = "complete"
        /\ PipelineRecord.status = "complete"
        /\ EmptyPlaylists)

\* a completed run whose harvest returned tracks, all of them seed tracks
C13_Witness ==
  /\ pstage = "complete"
  /\ PipelineRecord.status = "complete"
  /\ Len(candidates) > 0
  /\ \A i \in 1..Len(candidates) : candidates[i].id \in SeedIds
  /\ Len(playlists) >= 2
  /\ EmptyPlaylists

CandIds(tracks) == [i \in 1..Len(tracks) |-> tracks[i].id]

NotIn(missing, tracks) ==
  LET Present(track) == track.id \notin missing
  IN SelectSeq(tracks, Present)

\* C14: when the audio-feature lookup answers for every candidate but one,
\* that candidate leaves the pool, every other candidate goes on with its
\* own features, and the run does not fail for it.
C14_MissingFeaturesDropCandidate ==
  [][/\ \A missing \in MissingSets :
          (/\ FeaturesStep(missing)
           /\ Len(cands) >= 2
           /\ Cardinality({i \in 1..Len(cands) : cands[i].id \in missing}) = 1)
          => /\ CandIds(cands') = CandIds(NotIn(missing, cands))
             /\ \A i \in 1..Len(cands') :
                  cands'[i].audioFeatures = TrackFeatures(cands'[i].id)
     /\ (pstage \in {"featured", "enriched"} /\ pstage' = "failed")
          => UpstreamThrow]_vars

\* C15: a getRecommendations call of the harvest that rejects does not end
\* the harvest: the run stays in the harvest and goes on to the next slice.
C15_FailedSliceDoesNotEndHarvest ==
  [][(pstage \in {"start", "harvesting"} /\ UpstreamThrow)
       => pstage' \in {"harvesting", "harvested"}]_vars

\* C16: a build request with answers and zero seed tracks creates a job; that
\* job makes no catalog, embedding or extractor call (it passes no
\* checkpoint) and ends failed with InsufficientSeedData.
C16_NoSeedsBuildFails ==
  [][/\ \A session \in Sessions \ {Null} :
          StartBuild(session, <<>>, TRUE)
            => /\ resp'.statusCode = 202
               /\ getUserKV(kv', JobKey(resp'.jobId)) # Null
     /\ \A i \in 1..Len(runs') :
          (runs'[i].kind = "build" /\ runs'[i].seedTrackIds = <<>>)
            => /\ runs'[i].pc = 0
               /\ runs'[i].phase \in {"running", "failed"}
               /\ runs'[i].phase = "failed"
                    => runs'[i].error = "InsufficientSeedData"]_vars

\* the step of build run i that saves the world (checkpoint 95 to 100)
SavesWorld(i) ==
  /\ runs[i].kind = "build"
  /\ runs[i].phase = "running"
  /\ runs[i].pc = 95
  /\ runs'[i].pc = 100

\* C17: the world store changes only in the saving step of a build run, which
\* comes once per run and after the extraction; the step stores the run's
\* whole world object under the user's key and touches no other key.  A
\* build step that fails and every step of a generate run leave the store
\* as it was.
C17_WorldWrittenOnceAndWhole ==
  [][/\ \A i \in 1..Len(runs) : runs'[i].pc >= runs[i].pc
     /\ worlds' # worlds => \E i \in 1..Len(runs) : SavesWorld(i)
     /\ \A i \in 1..Len(runs) :
          SavesWorld(i) =>
            /\ runs[i].intersections \in ExtractedIntersections
            /\ DOMAIN worlds' = DOMAIN worlds \cup {WorldKey(runs[i].user)}
            /\ worlds'[WorldKey(runs[i].user)] =
                 BuildWorldObject(runs[i], runs[i].world.createdAt)
            /\ \A key \in DOMAIN worlds \ {WorldKey(runs[i].user)} :
                 worlds'[key] = worlds[key]
     /\ \A i \in 1..Len(runs) :
          (runs[i].phase = "running" /\ runs'[i].phase = "failed")
            => worlds' = worlds]_vars

\* a first build saved its world, a later build of the same user failed, a
\* generate run has passed checkpoints, and the store holds the first world
C17_Witness ==
  \E i, j, g \in 1..Len(runs) :
    /\ i < j
    /\ runs[i].kind = "build" /\ runs[i].phase = "complete"
    /\ runs[j].kind = "build" /\ runs[j].phase = "failed"
    /\ runs[j].user = runs[i].user
    /\ runs[j].pc >= 80
    /\ runs[g].kind = "generate" /\ runs[g].pc >= 10
    /\ getWorldBlob(worlds, runs[i].user) = runs[i].world

\* C18: bucketing leaves score alone.  Every playlist track is its candidate
\* with one field, biasedScore, added; its score is the combined score of the
\* bonus step; and its biasedScore is made of that score and the bias map of
\* its own intersection only, so an intersection without bias gives
\* biasedScore = score whatever the intersections before it hold.
C18_BiasLeavesScore ==
  pstage \in {"bucketed", "complete"} =>
    \A k \in 1..Len(playlists) :
      LET x == pworld.intersections[k]
          ts == playlists[k].tracks
      IN \A j \in 1..Len(ts) :
           LET c == cands[InputPos(ts[j])] IN
             /\ ts[j] = With(c, "biasedScore", ts[j].biasedScore)
             /\ ts[j].score = CombinedScore(c.semanticScore, c.spotifyScore,
                                            c.noveltyBonus, c.diversityBonus)
             /\ ts[j].biasedScore = BiasedScore(c, x.bias)
             /\ DOMAIN x.bias = {} => ts[j].biasedScore = ts[j].score

\* one candidate stands in several playlists: with a biasedScore above its
\* score, with another biasedScore under another bias, and with
\* biasedScore = score in an intersection without bias behind a biased one
C18_Witness ==
  /\ pstage = "bucketed"
  /\ \E k1, k2 \in 1..Len(playlists) :
       \E j1 \in 1..Len(playlists[k1].tracks),
          j2 \in 1..Len(playlists[k2].tracks) :
         LET t1 == playlists[k1].tracks[j1]
             t2 == playlists[k2].tracks[j2]
         IN /\ t1.id = t2.id
            /\ t1.biasedScore > t1.score
            /\ t2.biasedScore # t1.biasedScore
            /\ t2.score = t1.score
  /\ \E k1, k2 \in 1..Len(playlists) :
       \E j1 \in 1..Len(playlists[k1].tracks),
          j2 \in 1..Len(playlists[k2].tracks) :
         /\ k1 < k2
         /\ playlists[k1].tracks[j1].id = playlists[k2].tracks[j2].id
         /\ playlists[k1].tracks[j1].biasedScore > playlists[k1].tracks[j1].score
         /\ playlists[k2].tracks[j2].biasedScore = playlists[k2].tracks[j2].score

\* (1 - |track feature - bias value|) * 0.1, floored at 0 for tempo
ProximityTerm(track, bias, key) ==
  IF key = "tempo"
    THEN Max(0, 1000 - Abs(track.audioFeatures[key] - bias[key]))
    ELSE 1000 - Abs(track.audioFeatures[key] - bias[key])

RECURSIVE SumProximity(_, _, _)
SumProximity(track, bias, keys) ==
  IF keys = {} THEN 0
  ELSE LET key == CHOOSE x \in keys : TRUE
       IN ProximityTerm(track, bias, key)
          + SumProximity(track, bias, keys \ {key})

\* C19: the biasedScore of a playlist track is its score plus one proximity
\* term for every feature key of the intersection's bias map, acousticness
\* included; so two tracks of a playlist with equal score that differ only in
\* their distance to the acousticness bias value have different biasedScore.
C19_EveryBiasKeyCounts ==
  pstage = "bucketed" =>
    \A k \in 1..Len(playlists) :
      LET bias == pworld.intersections[k].bias
          ts == playlists[k].tracks
      IN /\ \A j \in 1..Len(ts) :
              ts[j].biasedScore
                = ts[j].score + SumProximity(ts[j], bias, DOMAIN bias)
         /\ "acousticness" \in DOMAIN bias =>
              \A i, j \in 1..Len(ts) :
                (/\ ts[i].score = ts[j].score
                 /\ \A key \in DOMAIN bias \ {"acousticness"} :
                      ts[i].audioFeatures[key] = ts[j].audioFeatures[key]
                 /\ Abs(ts[i].audioFeatures.acousticness - bias.acousticness)
                      # Abs(ts[j].audioFeatures.acousticness - bias.acousticness))
                => ts[i].biasedScore # ts[j].biasedScore

\* ------------------------------------ part_002: parseIntersectionBias
\* A string is the sequence of its characters.  Offsets in the units of the
\* features: 0.15 is 150 thousandths, 10 BPM is 100 tenths of a BPM.
MaxWords == 3

\* the characters of the string literals of the model
Chars(str) ==
  CASE str = "Darker" -> <<"D", "a", "r", "k", "e", "r">>
    [] str = "darker" -> <<"d", "a", "r", "k", "e", "r">>
    [] str = "brighter" -> <<"b", "r", "i", "g", "h", "t", "e", "r">>
    [] str = "melancholy" -> <<"m", "e", "l", "a", "n", "c", "h", "o", "l", "y">>
    [] str = "uplifting" -> <<"u", "p", "l", "i", "f", "t", "i", "n", "g">>
    [] str = "slower" -> <<"s", "l", "o", "w", "e", "r">>
    [] str = "calm" -> <<"c", "a", "l", "m">>
    [] str = "energetic" -> <<"e", "n", "e", "r", "g", "e", "t", "i", "c">>
    [] str = "driving" -> <<"d", "r", "i", "v", "i", "n", "g">>
    [] str = "faster" -> <<"f", "a", "s", "t", "e", "r">>
    [] str = "organic" -> <<"o", "r", "g", "a", "n", "i", "c">>
    [] str = "acoustic" -> <<"a", "c", "o", "u", "s", "t", "i", "c">>
    [] str = "electronic" -> <<"e", "l", "e", "c", "t", "r", "o", "n", "i", "c">>
    [] str = "warm" -> <<"w", "a", "r", "m">>
    [] str = "melanchol" -> <<"m", "e", "l", "a", "n", "c", "h", "o", "l">>

\* String.prototype.toLowerCase on the letters the descriptions use
LowerChar(c) ==
  CASE c = "D" -> "d"
    [] OTHER -> c

toLowerCase(s) == [i \in 1..Len(s) |-> LowerChar(s[i])]

\* String.prototype.includes
includes(s, sub) ==
  \E i \in 1..(Len(s) - Len(sub) + 1) : SubSeq(s, i, i + Len(sub) - 1) = sub

parseIntersectionBias(description, baseline) ==
  LET lower == toLowerCase(description)
      Has(str) == includes(lower, Chars(str))
      valence ==
        IF Has("darker") \/ Has("melanchol")
          THEN [valence |-> baseline.valence - 150]
        ELSE IF Has("brighter") \/ Has("uplifting")
          THEN [valence |-> baseline.valence + 150]
        ELSE <<>>
      energy ==
        IF Has("slower") \/ Has("calm")
          THEN [energy |-> baseline.energy - 150]
        ELSE IF Has("energetic") \/ Has("driving")
          THEN [energy |-> baseline.energy + 150]
        ELSE <<>>
      tempo ==
        IF Has("slower") THEN [tempo |-> baseline.tempo - 100]
        ELSE IF Has("faster") THEN [tempo |-> baseline.tempo + 100]
        ELSE <<>>
      acousticness ==
        IF Has("organic") \/ Has("acoustic")
          THEN [acousticness |-> baseline.acousticness + 150]
        ELSE IF Has("electronic")
          THEN [acousticness |-> baseline.acousticness - 150]
        ELSE <<>>
  IN valence @@ energy @@ tempo @@ acousticness

\* Step 8 of buildWorldAsync: worldDef.intersections.map(...)
FinalizeWorld ==
  /\ worldDef # Null
  /\ worldIntersections = <<>>
  /\ worldIntersections' =
       [k \in 1..Len(worldDef.intersections) |->
          [name |-> worldDef.intersections[k].name,
           description |-> worldDef.intersections[k].bias,
           bias |-> parseIntersectionBias(worldDef.intersections[k].bias,
                                          buildAvgFeatures)]]
  /\ UNCHANGED <<worldDef, buildAvgFeatures>>
  /\ UNCHANGED <<jobVars, pipeVars, clientVars, styleVars, pageVars>>

\* the words the extractor's bias descriptions are made of
BiasWords == {"Darker", "brighter", "melancholy", "uplifting", "slower", "calm", "energetic", "driving", "faster", "organic", "acoustic", "electronic", "warm"}

\* the words of ws joined by ", "
RECURSIVE Join(_, _)
Join(ws, k) ==
  IF k = 0 THEN <<>>
  ELSE IF k = 1 THEN Chars(ws[1])
  ELSE Join(ws, k - 1) \o <<",", " ">> \o Chars(ws[k])

BiasDescriptions ==
  {Join(ws, Len(ws)) :
     ws \in UNION {[1..n -> BiasWords] : n \in 1..MaxWords}}

SeedAverages ==
  {[valence |-> 500, energy |-> 600, tempo |-> 1200, acousticness |-> 300],
   [valence |-> 100, energy |-> 900, tempo |-> 900, acousticness |-> 950]}

InitBias ==
  /\ now = 1
  /\ kv = <<>>
  /\ worlds = <<>>
  /\ runs = <<>>
  /\ resp = Response("none", 0, "", Null)
  /\ pworld = Null
  /\ cands = <<>>
  /\ calls = <<>>
  /\ responses = <<>>
  /\ candidates = <<>>
  /\ playlists = <<>>
  /\ pstage = "idle"
  /\ worldDef \in {[intersections |-> <<[name |-> "Night", bias |-> d]>>] :
                     d \in BiasDescriptions}
  /\ buildAvgFeatures \in SeedAverages
  /\ worldIntersections = <<>>
  /\ ClientIdle
  /\ StyleIdle
  /\ PageIdle

NextBias == FinalizeWorld

SpecBias == InitBias /\ [][NextBias]_vars

\* -------------------------------------------------------------- bias claims
\* the bias keywords: feature, keyword, offset
BiasKeywords ==
  {<<"valence", "darker", 0 - 150>>, <<"valence", "melanchol", 0 - 150>>,
   <<"valence", "brighter", 150>>, <<"valence", "uplifting", 150>>,
   <<"energy", "slower", 0 - 150>>, <<"energy", "calm", 0 - 150>>,
   <<"energy", "energetic", 150>>, <<"energy", "driving", 150>>,
   <<"tempo", "slower", 0 - 100>>, <<"tempo", "faster", 100>>,
   <<"acousticness", "organic", 150>>, <<"acousticness", "acoustic", 150>>,
   <<"acousticness", "electronic", 0 - 150>>}

\* where the last occurrence of sub in s starts (0 when there is none)
LastIndexOf(s, sub) ==
  LET starts == {i \in 1..(Len(s) - Len(sub) + 1) :
                   SubSeq(s, i, i + Len(sub) - 1) = sub}
  IN IF starts = {} THEN 0 ELSE CHOOSE i \in starts : \A j \in starts : j <= i

\* C20: when a description holds two keywords for one feature with different
\* offsets, the bias stored for the feature is the baseline plus the offset
\* of the keyword that stands later in the description.
C20_LaterKeywordWins ==
    \A k \in 1..Len(worldIntersections) :
      LET x == worldIntersections[k]
          lower == toLowerCase(x.description)
      IN \A a, b \in BiasKeywords :
           (/\ a[1] = b[1]
            /\ a[3] # b[3]
            /\ LastIndexOf(lower, Chars(a[2])) > 0
            /\ LastIndexOf(lower, Chars(a[2]))
                 < LastIndexOf(lower, Chars(b[2])))
           => /\ b[1] \in DOMAIN x.bias
              /\ x.bias[b[1]] = buildAvgFeatures[b[1]] + b[3]

\* ----------------------------------------------------- harvest call claims
\* C21: a completed harvest has sent the danceability-biased request exactly
\* when the world has at least 30 seed track ids.
C21_DanceabilityCallFromThirtySeeds ==
  (pstage = "harvested" /\ Len(pworld.seedTrackIds) > 0) =>
    ((\E k \in 1..Len(calls) : "target_danceability" \in DOMAIN calls[k])
       <=> Len(pworld.seedTrackIds) >= 30)

\* ------------------------------------------- part_001: spotifyRequest
RATE_LIMIT_WINDOW == 60000

MAX_REQUESTS_PER_WINDOW == 150

\* how far the model's clock goes and how many admissions it follows
MaxWindows == 1
MaxAdmitted == 155

AdmittedAt(log, t) == IF t \in DOMAIN log THEN log[t] ELSE 0

\* the log after one more call has returned at time t
Admit(log, t) == (t :> (AdmittedAt(log, t) + 1)) @@ log

\* enforceRateLimit up to its first await or its return: the window reset,
\* then either the sleep for the rest of the window or requestCount++
EnforceRateLimit(c) ==
  /\ callerPc[c] = "ready"
  /\ AdmittedAt(admitted, now) < MaxAdmitted
  /\ LET reset == now - windowStart > RATE_LIMIT_WINDOW
         count == IF reset THEN 0 ELSE requestCount
         start == IF reset THEN now ELSE windowStart
     IN /\ windowStart' = start
        /\ IF count >= MAX_REQUESTS_PER_WINDOW
             THEN /\ callerPc' = [callerPc EXCEPT ![c] = "sleeping"]
                  /\ wakeAt' = [wakeAt EXCEPT
                                  ![c] = now + (RATE_LIMIT_WINDOW - (now - start))]
                  /\ requestCount' = count
                  /\ UNCHANGED admitted
             ELSE /\ requestCount' = count + 1
                  /\ admitted' = Admit(admitted, now)
                  /\ UNCHANGED <<callerPc, wakeAt>>
  /\ UNCHANGED now
  /\ UNCHANGED <<kv, worlds, runs, resp>>
  /\ UNCHANGED <<pipeVars, biasVars, requestVars, styleVars, pageVars>>

\* the sleep of a waiting caller ends: requestCount = 0, windowStart =
\* Date.now(), requestCount++
WakeUp(c) ==
  /\ callerPc[c] = "sleeping"
  /\ now >= wakeAt[c]
  /\ AdmittedAt(admitted, now) < MaxAdmitted
  /\ requestCount' = 1
  /\ windowStart' = now
  /\ callerPc' = [callerPc EXCEPT ![c] = "ready"]
  /\ admitted' = Admit(admitted, now)
  /\ UNCHANGED <<now, wakeAt>>
  /\ UNCHANGED <<kv, worlds, runs, resp>>
  /\ UNCHANGED <<pipeVars, biasVars, requestVars, styleVars, pageVars>>

\* a window's length of time passes
WindowPasses ==
  /\ now + RATE_LIMIT_WINDOW <= 1 + (MaxWindows * RATE_LIMIT_WINDOW)
  /\ now' = now + RATE_LIMIT_WINDOW
  /\ UNCHANGED <<kv, worlds, runs, resp>>
  /\ UNCHANGED <<pipeVars, biasVars, clientVars, styleVars, pageVars>>

maxRetries == 3

\* the answers a fetch of the catalog can give
HttpStatuses == {200, 201, 204, 400, 401, 403, 404, 429, 500, 502, 503}

\* the Retry-After header of an answer: absent, or seconds in decimal
RetryAfterHeaders == {Null, [value |-> 0], [value |-> 1], [value |-> 2], [value |-> 30]}

\* response.ok
Ok(status) == status >= 200 /\ status <= 299

\* an answer that is not ok
NotOk(status) == ~Ok(status)

\* response.status === 429
RateLimited(status) == status = 429

\* parseInt(response.headers.get('Retry-After') || '1', 10)
RetryAfterSeconds(header) == IF header = Null THEN 1 ELSE header.value

\* spotifyRequest is called: enforceRateLimit counts the request (the first of
\* its window), getValidAccessToken resolves and the loop is entered
BeginRequest ==
  /\ rqPc = "idle"
  /\ rqPc' = "fetch"
  /\ requestCount' = requestCount + 1
  /\ admitted' = Admit(admitted, now)
  /\ UNCHANGED <<retries, fetched, waited>>
  /\ UNCHANGED <<windowStart, callerPc, wakeAt>>
  /\ UNCHANGED <<jobVars, pipeVars, biasVars, styleVars, pageVars>>

\* one await fetch(...) of the loop and the tests on its response
Fetch(status, header) ==
  /\ rqPc = "fetch"
  /\ fetched' = Append(fetched, [status |-> status, retryAfter |-> header])
  /\ rqPc' = IF RateLimited(status) THEN "sleep"
             ELSE IF ~Ok(status) THEN "Spotify API error"
             ELSE "returned"
  /\ UNCHANGED <<retries, waited>>
  /\ UNCHANGED <<jobVars, pipeVars, biasVars, limiterVars, styleVars, pageVars>>

\* the sleep after a 429 ends: retries++, continue, and the loop test
Sleep ==
  /\ rqPc = "sleep"
  /\ waited' = waited
                 + (RetryAfterSeconds(fetched[Len(fetched)].retryAfter) * 1000)
  /\ retries' = retries + 1
  /\ rqPc' = IF retries + 1 < maxRetries THEN "fetch"
                                         ELSE "Max retries exceeded"
  /\ UNCHANGED fetched
  /\ UNCHANGED <<jobVars, pipeVars, biasVars, limiterVars, styleVars, pageVars>>

InitRequest ==
  /\ now = 1
  /\ kv = <<>>
  /\ worlds = <<>>
  /\ runs = <<>>
  /\ resp = Response("none", 0, "", Null)
  /\ pworld = Null
  /\ cands = <<>>
  /\ calls = <<>>
  /\ responses = <<>>
  /\ candidates = <<>>
  /\ playlists = <<>>
  /\ pstage = "idle"
  /\ worldDef = Null
  /\ buildAvgFeatures = Null
  /\ worldIntersections = <<>>
  /\ ClientIdle
  /\ StyleIdle
  /\ PageIdle

NextRequest ==
  \/ BeginRequest
  \/ \E status \in HttpStatuses, header \in RetryAfterHeaders :
       Fetch(status, header)
  \/ Sleep

SpecRequest == InitRequest /\ [][NextRequest]_vars

\* fetch resolves or rejects and a timer fires, so a request under way goes on
FairSpecRequest == SpecRequest /\ WF_vars(NextRequest)

\* -------------------------------------------------------- request claims
RequestFailed == rqPc \in {"Spotify API error", "Max retries exceeded"}

RECURSIVE SleptFor(_, _)
SleptFor(log, k) ==
  IF k = 0 THEN 0
  ELSE SleptFor(log, k - 1) + (RetryAfterSeconds(log[k].retryAfter) * 1000)

\* C22: a catalog request fetches at most three times and ends.  Only a 429
\* answer is followed by another fetch, after a wait of its Retry-After; the
\* third 429 in a row ends the request with 'Max retries exceeded' and any
\* other answer that is not ok ends it at once with the API error.
C22_RequestRetriesAreBounded ==
  /\ [](/\ Len(fetched) <= 3
        /\ \A k \in 1..(Len(fetched) - 1) : fetched[k].status = 429
        /\ rqPc = "fetch" =>
             /\ retries = Len(fetched)
             /\ waited = SleptFor(fetched, Len(fetched))
        /\ rqPc = "returned" => Ok(fetched[Len(fetched)].status)
        /\ rqPc = "Spotify API error" =>
             /\ fetched[Len(fetched)].status # 429
             /\ ~Ok(fetched[Len(fetched)].status)
        /\ rqPc = "Max retries exceeded" =>
             /\ Len(fetched) = 3
             /\ fetched[3].status = 429)
  /\ (rqPc = "fetch") ~> (rqPc = "returned" \/ RequestFailed)

\* three 429 answers in a row, each waited for, and the request has failed
C22_Witness ==
  /\ rqPc = "Max retries exceeded"
  /\ Len(fetched) = 3
  /\ \A k \in 1..3 : fetched[k].status = 429
  /\ fetched[2].retryAfter = Null
  /\ waited = SleptFor(fetched, 3)
  /\ waited > 3000

\* ------------------------------------------------ math-utils.ts: inferStyle
\* Features in thousandths, tempo in tenths of a BPM.

\* the energy and valence cascade
MoodTags(features) ==
  IF features.energy > 700 /\ features.valence > 600 THEN <<"upbeat">>
  ELSE IF features.energy < 400 /\ features.valence < 400
    THEN <<"melancholic">>
  ELSE IF features.energy > 600 /\ features.valence < 400 THEN <<"intense">>
  ELSE IF features.energy < 500 /\ features.valence > 500
    THEN <<"calm-warm">>
  ELSE <<>>

AcousticTags(features) ==
  IF features.acousticness > 700 THEN <<"acoustic">>
  ELSE IF features.acousticness < 300 THEN <<"electronic">>
  ELSE <<>>

InstrumentalTags(features) ==
  IF features.instrumentalness > 500 THEN <<"instrumental">> ELSE <<>>

\* a tempo test without the final else
TempoTagsNoElse(features) ==
  IF features.tempo < 800 THEN <<"slow">>
  ELSE IF features.tempo > 1400 THEN <<"fast">>
  ELSE <<>>

TempoTags(features) ==
  IF features.tempo < 800 THEN <<"slow">>
  ELSE IF features.tempo > 1400 THEN <<"fast">>
  ELSE <<"mid-tempo">>

GroovyTags(features) ==
  IF features.danceability > 700 THEN <<"groovy">> ELSE <<>>

\* the styles array before the join
StylesOf(features) ==
  MoodTags(features) \o AcousticTags(features) \o InstrumentalTags(features)
    \o TempoTags(features) \o GroovyTags(features)

\* Array.prototype.join(', ') on strings
RECURSIVE JoinTags(_, _)
JoinTags(tags, k) ==
  IF k = 0 THEN ""
  ELSE IF k = 1 THEN tags[1]
  ELSE JoinTags(tags, k - 1) \o ", " \o tags[k]

inferStyle(features) == JoinTags(StylesOf(features), Len(StylesOf(features)))

\* a call of inferStyle on the features of a track
InferStyleCall ==
  /\ styleInput # Null
  /\ styleTags = <<>>
  /\ styleTags' = StylesOf(styleInput)
  /\ styleText' = inferStyle(styleInput)
  /\ UNCHANGED styleInput
  /\ UNCHANGED <<jobVars, pipeVars, biasVars, clientVars, pageVars>>

\* audio features around the thresholds of the rules
StyleInputs ==
  [energy : {300, 400, 450, 500, 600, 650, 700, 800},
   valence : {300, 400, 500, 550, 600, 700},
   acousticness : {200, 300, 500, 700, 800},
   instrumentalness : {500, 501},
   tempo : {790, 800, 1400, 1410},
   danceability : {700, 701}]

InitStyle ==
  /\ now = 1
  /\ kv = <<>>
  /\ worlds = <<>>
  /\ runs = <<>>
  /\ resp = Response("none", 0, "", Null)
  /\ pworld = Null
  /\ cands = <<>>
  /\ calls = <<>>
  /\ responses = <<>>
  /\ candidates = <<>>
  /\ playlists = <<>>
  /\ pstage = "idle"
  /\ worldDef = Null
  /\ buildAvgFeatures = Null
  /\ worldIntersections = <<>>
  /\ ClientIdle
  /\ styleInput \in StyleInputs
  /\ styleTags = <<>>
  /\ styleText = ""
  /\ PageIdle

NextStyle == InferStyleCall

SpecStyle == InitStyle /\ [][NextStyle]_vars

\* ---------------------------------------------------------- style claims
\* the place of a tag in the fixed order
TagRank(tag) ==
  CASE tag = "upbeat" -> 1
    [] tag = "melancholic" -> 2
    [] tag = "intense" -> 3
    [] tag = "calm-warm" -> 4
    [] tag = "acoustic" -> 5
    [] tag = "electronic" -> 6
    [] tag = "instrumental" -> 7
    [] tag = "slow" -> 8
    [] tag = "fast" -> 9
    [] tag = "mid-tempo" -> 10
    [] tag = "groovy" -> 11

HasTag(tag) == \E k \in 1..Len(styleTags) : styleTags[k] = tag

TagsAmong(group) ==
  Cardinality({k \in 1..Len(styleTags) : styleTags[k] \in group})

\* C23: the tags inferStyle returns stand in the fixed order, with at most
\* one mood tag (the first rule that matches), at most one of acoustic and
\* electronic, exactly one tempo tag, and each tag there exactly when its rule
\* holds for the input; the returned string is the tags joined by ', ' and is
\* the same for the same input.
C23_InferStyleIsTheRuleCascade ==
  styleTags # <<>> =>
    LET f == styleInput
        upbeat == f.energy > 700 /\ f.valence > 600
        melancholic == f.energy < 400 /\ f.valence < 400
        intense == f.energy > 600 /\ f.valence < 400
        calmWarm == f.energy < 500 /\ f.valence > 500
    IN /\ \A k \in 1..(Len(styleTags) - 1) :
            TagRank(styleTags[k]) < TagRank(styleTags[k + 1])
       /\ TagsAmong({"upbeat", "melancholic", "intense", "calm-warm"}) <= 1
       /\ TagsAmong({"acoustic", "electronic"}) <= 1
       /\ TagsAmong({"slow", "fast", "mid-tempo"}) = 1
       /\ HasTag("upbeat") <=> upbeat
       /\ HasTag("melancholic") <=> (~upbeat /\ melancholic)
       /\ HasTag("intense") <=> (~upbeat /\ ~melancholic /\ intense)
       /\ HasTag("calm-warm")
            <=> (~upbeat /\ ~melancholic /\ ~intense /\ calmWarm)
       /\ HasTag("acoustic") <=> f.acousticness > 700
       /\ HasTag("electronic") <=> f.acousticness < 300
       /\ HasTag("instrumental") <=> f.instrumentalness > 500
       /\ HasTag("slow") <=> f.tempo < 800
       /\ HasTag("fast") <=> f.tempo > 1400
       /\ HasTag("groovy") <=> f.danceability > 700
       /\ styleText = JoinTags(styleTags, Len(styleTags))
       /\ styleText = inferStyle(f)

\* a call that returned one tag of every kind
C23_Witness ==
  /\ Len(styleTags) = 5
  /\ styleText = "intense, electronic, instrumental, mid-tempo, groovy"

\* --------------------------------------------- part_001: the rate limiter
InitLimiter ==
  /\ now = 1
  /\ kv = <<>>
  /\ worlds = <<>>
  /\ runs = <<>>
  /\ resp = Response("none", 0, "", Null)
  /\ pworld = Null
  /\ cands = <<>>
  /\ calls = <<>>
  /\ responses = <<>>
  /\ candidates = <<>>
  /\ playlists = <<>>
  /\ pstage = "idle"
  /\ worldDef = Null
  /\ buildAvgFeatures = Null
  /\ worldIntersections = <<>>
  /\ ClientIdle
  /\ StyleIdle
  /\ PageIdle

NextLimiter ==
  \/ \E c \in Callers : EnforceRateLimit(c)
  \/ \E c \in Callers : WakeUp(c)
  \/ WindowPasses

SpecLimiter == InitLimiter /\ [][NextLimiter]_vars

\* how many calls returned at a time t with from <= t < from + 60 s
RECURSIVE AdmittedWithin(_, _, _)
AdmittedWithin(log, from, times) ==
  IF times = {} THEN 0
  ELSE LET t == CHOOSE x \in times : TRUE
       IN (IF from <= t /\ t < from + RATE_LIMIT_WINDOW THEN log[t] ELSE 0)
          + AdmittedWithin(log, from, times \ {t})

\* C24: in every 60-second window the limiter lets at most 150 requests
\* through, also with several callers waiting for the window to reset.
C24_AtMost150PerWindow ==
  \A from \in DOMAIN admitted :
    AdmittedWithin(admitted, from, DOMAIN admitted) <= MAX_REQUESTS_PER_WINDOW

\* ---------------------------------------------------------- cooldown claim
\* C25: a regenerate request for a playlist is accepted only when no request
\* of the same user for the same playlist was accepted in the 15 minutes
\* before it: inside the cooldown nothing is started, no job record is
\* written and the cooldown timestamp stays.
C25_CooldownRejectsRepeats ==
  [][\A session \in Sessions \ {Null}, playlistName \in PlaylistNames :
       StartRegen(session, playlistName) =>
         LET cooldownKey == CooldownKey(session.spotifyId, playlistName)
         IN \/ cooldownKey \notin DOMAIN kv
            \/ now - kv[cooldownKey].value >= cooldownMs]_vars

\* ------------------------------------------------------- enrichment claims
\* C26: every candidate that leaves the audio-feature step carries the
\* features the catalog holds for its own track id, also when the lookup
\* answered null for other candidates of the batch.
C26_FeaturesBelongToTheirTrack ==
  pstage = "featured" =>
    \A i \in 1..Len(cands) :
      cands[i].audioFeatures = TrackFeatures(cands[i].id)

\* the features the harvester turns into target_* parameters
TargetFeatures ==
  {"acousticness", "valence", "energy", "tempo", "instrumentalness",
   "danceability"}

FeatureNames ==
  {"danceability", "energy", "speechiness", "acousticness",
   "instrumentalness", "liveness", "valence", "tempo", "loudness"}

\* a feature record that is zero everywhere but in one feature
OnlyFeature(feature) ==
  [f \in FeatureNames |-> IF f = feature THEN 6000 ELSE 0]

\* the vector position at which audioFeaturesToVector stores a feature
StoredAt(feature) ==
  CHOOSE k \in 1..9 : audioFeaturesToVector(OnlyFeature(feature))[k] # 0

\* what the n-th call makes of the average value v of a feature
TargetFrom(n, feature, v) ==
  CASE n = 2 -> OrDefault(v, 500)
    [] n = 3 -> IF feature = "tempo" THEN OrDefault(v, 120000)
                ELSE OrDefault(v, 100)
    [] n = 4 -> IF feature = "valence" THEN Max(0, OrDefault(v, 500) - 200)
                ELSE Max(0, OrDefault(v, 500) - 100)
    [] n = 5 -> Min(1000, OrDefault(v, 500) + 200)
    [] OTHER -> OrDefault(v, 500)

\* C27: every target value of a recommendations call is derived from the
\* entry of world.tasteCentroid at the position where audioFeaturesToVector
\* stores that feature.
C27_TargetsReadTheirOwnPosition ==
  (pstage = "harvested" /\ Len(pworld.seedTrackIds) > 0) =>
    \A k \in 1..Len(calls) : \A feature \in TargetFeatures :
      LET param == "target_" \o feature
      IN param \in DOMAIN calls[k] =>
           calls[k][param] =
             TargetFrom(k, feature, pworld.tasteCentroid[StoredAt(feature)])

\* ---------------------------------------------------- world snapshot claim
\* a user whose earlier build, at time 0, stored a world of one intersection
EarlierWorld(user) ==
  BuildWorldObject([user |-> user, seedTrackIds |-> <<"s1">>,
                    intersections |-> <<"Night">>], 0)

InitSnapshot ==
  /\ now = 1
  /\ kv = <<>>
  /\ worlds \in {putWorldBlob(<<>>, u, EarlierWorld(u)) : u \in Users}
  /\ runs = <<>>
  /\ resp = Response("none", 0, "", Null)
  /\ pworld = Null
  /\ cands = <<>>
  /\ calls = <<>>
  /\ responses = <<>>
  /\ candidates = <<>>
  /\ playlists = <<>>
  /\ pstage = "idle"
  /\ worldDef = Null
  /\ buildAvgFeatures = Null
  /\ worldIntersections = <<>>
  /\ ClientIdle
  /\ StyleIdle
  /\ PageIdle

\* generate jobs and builds of the same user running side by side
NextSnapshot ==
  \/ \E s \in Sessions : StartGenerate(s)
  \/ \E i \in 1..MaxRuns : GenStep(i)
  \/ \E i \in 1..MaxRuns : GenThrow(i)
  \/ \E s \in Sessions, seeds \in SeedInputs, a \in BOOLEAN : StartBuild(s, seeds, a)
  \/ \E i \in 1..MaxRuns : BuildStep(i)
  \/ \E i \in 1..MaxRuns : BuildThrow(i)

SpecSnapshot == InitSnapshot /\ [][NextSnapshot]_vars

\* C28: a generate job reads the user's world once, when it is started, and
\* works on that snapshot to the end: the run's world never changes, also
\* when a build replaces the stored world meanwhile, and the playlist count
\* the job records at completion is the one of the snapshot.
C28_GenerateUsesOneSnapshot ==
  [][/\ \A i \in 1..Len(runs) :
          runs[i].kind = "generate" =>
            /\ runs'[i].world = runs[i].world
            /\ (runs[i].phase = "running" /\ runs'[i].phase = "complete") =>
                 kv'[JobKey(runs[i].jobId)].playlistCount =
                   Len(runs[i].world.intersections)
     /\ (Len(runs') > Len(runs) /\ runs'[Len(runs')].kind = "generate") =>
          runs'[Len(runs')].world =
            getWorldBlob(worlds, runs'[Len(runs')].user)]_vars

\* a generate job completed on its snapshot after a build had replaced the
\* stored world with one of another shape
C28_Witness ==
  \E i \in 1..Len(runs) :
    /\ runs[i].kind = "generate"
    /\ runs[i].phase = "complete"
    /\ getWorldBlob(worlds, runs[i].user) # runs[i].world
    /\ Len(getWorldBlob(worlds, runs[i].user).intersections) #
         Len(runs[i].world.intersections)
    /\ kv[JobKey(runs[i].jobId)].playlistCount =
         Len(runs[i].world.intersections)

\* ------------------------------------------------------------- callback.ts
\* the refresh tokens the token exchange can hand out
RefreshTokens == {"rt1", "rt2"}

\* the user data the OAuth callback assembles; continuity in thousandths
UserDataOf(spotifyId, refreshToken, createdAt) ==
  [spotifyId |-> spotifyId,
   displayName |-> spotifyId,
   refreshToken |-> refreshToken,
   createdAt |-> createdAt,
   settings |-> [cadence |-> "weekly", continuity |-> 300,
                 blocklist |-> <<>>, weeklyEnabled |-> TRUE]]

\* GET /api/callback after the token exchange and the profile fetch: the user
\* data is stored under the bare spotify id
Login(spotifyId, refreshToken) ==
  /\ kv' = setUserKV(kv, spotifyId,
                     UserDataOf(spotifyId, refreshToken, now))
  /\ UNCHANGED <<now, worlds, runs, resp>>
  /\ UNCHANGED <<pipeVars, biasVars, clientVars, styleVars, pageVars>>

\* logins and world builds
NextUser ==
  \/ Tick
  \/ \E u \in Users, rt \in RefreshTokens : Login(u, rt)
  \/ \E s \in Sessions, seeds \in SeedInputs, a \in BOOLEAN : StartBuild(s, seeds, a)
  \/ \E i \in 1..MaxRuns : BuildStep(i)
  \/ \E i \in 1..MaxRuns : BuildThrow(i)

SpecUser == Init /\ [][NextUser]_vars

\* the user has logged in and one of their builds has completed
LoggedInAndBuilt(u) ==
  /\ u \in DOMAIN kv
  /\ \E i \in 1..Len(runs) :
       runs[i].kind = "build" /\ runs[i].user = u /\ runs[i].phase = "complete"

MaxPolls == 4
PollTimeout == 150

JobStatuses == {"building", "generating", "complete", "failed"}

\* what a fetch of /api/world-status resolves with: a non-ok response, or
\* the job status of an ok one
StatusResponses ==
  {[ok |-> FALSE, status |-> ""]} \cup
  {[ok |-> TRUE, status |-> st] : st \in JobStatuses}

\* The page after its first render and the run of the polling effect.  The
\* effect depends on navigate only, so it runs once; the interval and the
\* initial check call the checkStatus of that first render, whose
\* isGeneratingPlaylists is the initial false (field closureGenerating).
\* Without a stored job id the effect navigates to /seeds at once.
MountedPage(hasJobId) ==
  [mounted |-> hasJobId,
   status |-> "none",
   error |-> FALSE,
   isGeneratingPlaylists |-> FALSE,
   closureGenerating |-> FALSE,
   pollCount |-> 0,
   checks |-> 0,
   startTimers |-> 0,
   posts |-> 0,
   playlistPolls |-> 0,
   leaveTimers |-> 0]

\* checkStatus(jobId) once its fetch has resolved with data: a non-ok
\* response throws and is caught; otherwise setStatus(data), and on
\* 'complete' a 1.5 s timer for startPlaylistGeneration unless the closure's
\* isGeneratingPlaylists is set; 'failed' sets the error
checkStatus(p, data) ==
  IF ~data.ok THEN [p EXCEPT !.checks = @ + 1]
  ELSE [p EXCEPT !.checks = @ + 1,
                 !.status = data.status,
                 !.startTimers = IF data.status = "complete" /\ ~p.closureGenerating
                                   THEN @ + 1 ELSE @,
                 !.error = IF data.status = "failed" THEN TRUE ELSE @]

\* the effect on [pollCount, status]: the five-minute timeout
pollTimeoutEffect(p) ==
  IF p.pollCount > PollTimeout /\ p.status # "complete"
    THEN [p EXCEPT !.error = TRUE]
    ELSE p

\* the initial check of the polling effect
InitialCheck(data) ==
  /\ page # Null
  /\ page.mounted
  /\ page.checks = 0
  /\ page' = pollTimeoutEffect(checkStatus(page, data))
  /\ UNCHANGED <<jobVars, pipeVars, biasVars, clientVars, styleVars>>

\* the 2 s interval fires: checkStatus(jobId) and setPollCount(prev + 1)
IntervalFires(data) ==
  /\ page # Null
  /\ page.mounted
  /\ page.checks > 0
  /\ page.checks < MaxPolls
  /\ page' = pollTimeoutEffect(
               [checkStatus(page, data) EXCEPT !.pollCount = @ + 1])
  /\ UNCHANGED <<jobVars, pipeVars, biasVars, clientVars, styleVars>>

\* a 1.5 s timer fires: startPlaylistGeneration sets isGeneratingPlaylists,
\* POSTs /api/generate-playlists and, on an ok answer, starts polling the
\* playlist job; otherwise it sets the error and a 3 s timer to /results
StartPlaylistGeneration(ok) ==
  /\ page # Null
  /\ page.startTimers > 0
  /\ page' = [page EXCEPT !.startTimers = @ - 1,
                          !.isGeneratingPlaylists = TRUE,
                          !.posts = @ + 1,
                          !.playlistPolls = IF ok THEN @ + 1 ELSE @,
                          !.error = IF ok THEN @ ELSE TRUE,
                          !.leaveTimers = IF ok THEN @ ELSE @ + 1]
  /\ UNCHANGED <<jobVars, pipeVars, biasVars, clientVars, styleVars>>

\* checkPlaylistStatus once its fetch has resolved: 'complete' navigates to
\* /results, 'failed' sets the error and a 3 s timer to /results, any other
\* status polls again in 2 s, and a non-ok response ends this polling chain
CheckPlaylistStatus(statusData) ==
  /\ page # Null
  /\ page.playlistPolls > 0
  /\ page' =
       IF ~statusData.ok THEN [page EXCEPT !.playlistPolls = @ - 1]
       ELSE IF statusData.status = "complete"
         THEN [page EXCEPT !.playlistPolls = @ - 1, !.mounted = FALSE]
       ELSE IF statusData.status = "failed"
         THEN [page EXCEPT !.playlistPolls = @ - 1, !.error = TRUE,
                           !.leaveTimers = @ + 1]
       ELSE page
  /\ page' # page
  /\ UNCHANGED <<jobVars, pipeVars, biasVars, clientVars, styleVars>>

\* a 3 s timer fires: navigate('/results') unmounts the page, and the
\* effect's cleanup clears the interval
LeavePage ==
  /\ page # Null
  /\ page.leaveTimers > 0
  /\ page' = [page EXCEPT !.leaveTimers = @ - 1, !.mounted = FALSE]
  /\ UNCHANGED <<jobVars, pipeVars, biasVars, clientVars, styleVars>>

InitPreview ==
  /\ now = 1
  /\ kv = <<>>
  /\ worlds = <<>>
  /\ runs = <<>>
  /\ resp = Response("none", 0, "", Null)
  /\ pworld = Null
  /\ cands = <<>>
  /\ calls = <<>>
  /\ responses = <<>>
  /\ candidates = <<>>
  /\ playlists = <<>>
  /\ pstage = "idle"
  /\ worldDef = Null
  /\ buildAvgFeatures = Null
  /\ worldIntersections = <<>>
  /\ ClientIdle
  /\ StyleIdle
  /\ page \in {MountedPage(hasJobId) : hasJobId \in BOOLEAN}

NextPreview ==
  \/ \E data \in StatusResponses : InitialCheck(data)
  \/ \E data \in StatusResponses : IntervalFires(data)
  \/ \E ok \in BOOLEAN : StartPlaylistGeneration(ok)
  \/ \E statusData \in StatusResponses : CheckPlaylistStatus(statusData)
  \/ LeavePage

SpecPreview == InitPreview /\ [][NextPreview]_vars

====
